---- MODULE Spec2Model ----
(***************************************************************************)
(* Verification model of the Wolfkrypt host streaming core:                *)
(*   - the protocol codec                 (src/src/core/protocol.py)       *)
(*   - the dropping frame queue           (src/src/core/dropping_queue.py) *)
(*   - the three-worker StreamPipeline    (src/src/core/pipeline.py)       *)
(*   - the Authenticator                  (src/src/core/auth.py)           *)
(*   - the AoaHost                        (src/src/core/aoa.py)            *)
(*   - the GUI's receive loop             (src/src/ui/main_window.py)      *)
(* Bytes are integers 0..255, byte strings are sequences of bytes.         *)
(***************************************************************************)
EXTENDS Integers, Sequences, FiniteSets, TLC

(***************************************************************************)
(* Protocol constants (protocol.py)                                        *)
(***************************************************************************)
VIDEO == 1
AUDIO == 2
CONFIG == 3
HEARTBEAT == 4
AUTH_CHALLENGE == 16
AUTH_RESPONSE == 17
AUTH_SUCCESS == 18
AUTH_FAIL == 19

\* The members of the IntEnum PacketType: PacketType(x) raises ValueError
\* for every x outside this set.
PacketType == {VIDEO, AUDIO, CONFIG, HEARTBEAT,
               AUTH_CHALLENGE, AUTH_RESPONSE, AUTH_SUCCESS, AUTH_FAIL}

VIDEO_SPS == 1
VIDEO_PPS == 2
AUDIO_AAC == 3

HEADER_TOTAL_SIZE == 5
MAX_PAYLOAD_SIZE == 65536
CHALLENGE_SIZE == 32
SIGNATURE_SIZE == 64

(***************************************************************************)
(* Byte-string helpers                                                     *)
(***************************************************************************)
\* Python slice s[n:] (n >= 0)
DropFirst(s, n) == IF n >= Len(s) THEN << >> ELSE SubSeq(s, n + 1, Len(s))

\* Python slice s[:n] (n >= 0)
TakeFirst(s, n) == IF n >= Len(s) THEN s ELSE SubSeq(s, 1, n)

\* struct.unpack('>I', b)[0] for a 4-byte string b.  Python integers are
\* unbounded, the model checker's end at 2^31 - 1: values of 2^31 and more
\* are reported as 2^31 - 1, which keeps every comparison the program makes
\* with them (a parsed length is first compared with MAX_PAYLOAD_SIZE).
unpack_u32(b) ==
    IF b[1] >= 128
    THEN 2147483647
    ELSE b[1] * 16777216 + b[2] * 65536 + b[3] * 256 + b[4]

\* struct.pack('>I', n) for 0 <= n < 2^32
pack_u32(n) == << (n \div 16777216) % 256, (n \div 65536) % 256,
                  (n \div 256) % 256, n % 256 >>

(***************************************************************************)
(* parse_header / create_header                                            *)
(* The result of parse_header is one of                                    *)
(*   NoneValue                   the function returned None                *)
(*   PacketHeader(t, l)          the function returned a header            *)
(*   Raised("ValueError")        the call did not return: PacketType(x)    *)
(*                               raised for a code that is no member       *)
(***************************************************************************)
NoneValue == [kind |-> "None"]

PacketHeader(t, l) == [kind |-> "PacketHeader", type |-> t, length |-> l]

Raised(e) == [kind |-> "raise", exc |-> e]

\* parse_header refusing a payload of exactly MAX_PAYLOAD_SIZE bytes
parse_header_exclusive(data) ==
    IF Len(data) < HEADER_TOTAL_SIZE
    THEN NoneValue
    ELSE LET packet_type == data[1]
             length == unpack_u32(SubSeq(data, 2, 5))
         IN  IF length >= MAX_PAYLOAD_SIZE
             THEN NoneValue
             ELSE IF packet_type \notin PacketType
                  THEN Raised("ValueError")
                  ELSE PacketHeader(packet_type, length)

parse_header(data) ==
    IF Len(data) < HEADER_TOTAL_SIZE
    THEN NoneValue
    ELSE LET packet_type == data[1]
             length == unpack_u32(SubSeq(data, 2, 5))
         IN  IF length > MAX_PAYLOAD_SIZE
             THEN NoneValue
             ELSE IF packet_type \notin PacketType
                  THEN Raised("ValueError")
                  ELSE PacketHeader(packet_type, length)

create_header(packet_type, length) == << packet_type >> \o pack_u32(length)

(***************************************************************************)
(* Authenticator.sign_challenge (auth.py)                                  *)
(* The Ed25519 signature is an uninterpreted 64-byte string that depends   *)
(* on the challenge: byte i of the signature is challenge[((i-1) % 32)+1]  *)
(* plus one, so different challenges give different signatures.            *)
(* SigningKey.sign does not fail for a key that was constructed, so the    *)
(* CryptoError branch is not taken.                                        *)
(***************************************************************************)
Ed25519Sign(challenge) ==
    [i \in 1..SIGNATURE_SIZE |->
        (challenge[((i - 1) % Len(challenge)) + 1] + 1) % 256]

\* sign_challenge that looks at the challenge only
sign_challenge_no_key_check(key_loaded, challenge) ==
    IF Len(challenge) # CHALLENGE_SIZE
    THEN NoneValue
    ELSE [kind |-> "bytes", value |-> Ed25519Sign(challenge)]

\* 93-109: the value returned
sign_challenge(key_loaded, challenge) ==
    IF ~key_loaded
    THEN NoneValue
    ELSE IF Len(challenge) # CHALLENGE_SIZE
         THEN NoneValue
         ELSE [kind |-> "bytes", value |-> Ed25519Sign(challenge)]

\* 93-99: last_error after the call
sign_challenge_error(key_loaded, challenge, last_error) ==
    IF ~key_loaded
    THEN "Private key not loaded"
    ELSE IF Len(challenge) # CHALLENGE_SIZE
         THEN "Invalid challenge size"
         ELSE last_error

(***************************************************************************)
(* queue.Queue(maxsize).put_nowait: append, or queue.Full (the caller      *)
(* drops the payload)                                                      *)
(***************************************************************************)
VIDEO_QUEUE_MAXSIZE == 30
AUDIO_QUEUE_MAXSIZE == 50
FRAME_QUEUE_MAXSIZE == 1

\* put_nowait that puts the new item in front of the others
put_nowait_front(q, maxsize, item) ==
    IF Len(q) >= maxsize THEN q ELSE << item >> \o q

put_nowait(q, maxsize, item) ==
    IF Len(q) >= maxsize THEN q ELSE Append(q, item)

(***************************************************************************)
(* DroppingQueue (dropping_queue.py): every method body runs under the     *)
(* queue's lock and is one atomic step, except get(timeout), which gives   *)
(* the lock up while it waits.                                             *)
(***************************************************************************)
\* put that keeps the old items when the queue is full and drops the new
DroppingPutKeepOld(items, maxsize, item) ==
    IF Len(items) >= maxsize
    THEN items
    ELSE Append(items, item)

\* put: the items after the call
DroppingPutItems(items, maxsize, item) ==
    IF Len(items) >= maxsize
    THEN Append(Tail(items), item)
    ELSE Append(items, item)

\* put reporting a drop only when the queue is over its capacity
DroppingPutDroppedStrict(items, maxsize) == Len(items) > maxsize

\* put: the value returned
DroppingPutDropped(items, maxsize) == Len(items) >= maxsize

(***************************************************************************)
(* PyAVDecoder (pyav_decoder.py), as far as the pipeline drives it         *)
(***************************************************************************)
StartCode4 == << 0, 0, 0, 1 >>
StartCode3 == << 0, 0, 1 >>

startswith(s, prefix) ==
    /\ Len(s) >= Len(prefix)
    /\ SubSeq(s, 1, Len(prefix)) = prefix

\* "Ensure start code" of set_sps, set_pps and decode
EnsureStartCode(nal) ==
    IF ~startswith(nal, StartCode4) /\ ~startswith(nal, StartCode3)
    THEN StartCode4 \o nal
    ELSE nal

(***************************************************************************)
(* State                                                                   *)
(***************************************************************************)
VARIABLES
    hdrData,          \* codec check: the argument handed to parse_header
    hdrResult,        \* codec check: what the call produced
    \* ---- a DroppingQueue on its own, with producers and consumers
    dq_maxsize,       \* DroppingQueue._maxsize
    dq_items,         \* DroppingQueue._items
    dq_waiting,       \* the consumers inside _not_empty.wait(timeout)
    dq_puts,          \* number of put calls so far; the k-th call puts k
    dq_fresh,         \* a put has happened since the last take or clear
    dq_flags,         \* the values the put calls returned, in order
    dq_got,           \* what the get calls returned, in order
    \* ---- a FrameQueue on its own (no other class constructs one)
    fq_queue,         \* FrameQueue._queue
    fq_dropped_frames, \* FrameQueue._dropped_frames
    fq_total_frames,  \* FrameQueue._total_frames
    \* ---- collaborators of the pipeline, fixed when it is constructed
    connected,        \* AoaHost._connected
    key_loaded,       \* Authenticator._key_loaded
    audio_callback,   \* StreamPipeline._audio_callback is set
    codec_ok,         \* libav can open the H.264 codec on this host
    sent,             \* the packets the device serializes onto bulk-IN
    noise,            \* bytes the device's stream carries before them
    inserted,         \* << offset, byte >>: one byte put into the stream
                      \* behind the first offset bytes (<< >>: none)
    stream,           \* bytes the device still has to deliver on bulk-IN
    \* ---- StreamPipeline
    running,          \* StreamPipeline._running
    video_queue,      \* StreamPipeline._video_queue
    audio_queue,      \* StreamPipeline._audio_queue
    frame_queue,      \* StreamPipeline._frame_queue._items
    sdl_window,       \* StreamPipeline._sdl_window: "None" or "window"
    sdl_running,      \* SDLVideoWindow._running
    dec_sps,          \* PyAVDecoder._sps (<< >> when unset)
    dec_pps,          \* PyAVDecoder._pps (<< >> when unset)
    dec_running,      \* PyAVDecoder._running
    \* ---- threads
    ctlPc,            \* the controller: position in start() / stop()
    usbPc,            \* USB_Pump thread
    buffer,           \* its local reassembly buffer
    decPc,            \* Video_Decoder thread
    h264_data,        \* its local payload
    renPc,            \* Render_Poll thread
    frame,            \* its local frame
    \* ---- observations (history, read by no action)
    routed,           \* the calls _handle_packet(type, payload), in order
    writes,           \* the byte strings handed to AoaHost.write, in order
    resyncs,          \* number of one-byte advances of the buffer
    audio_out,        \* the payloads handed to the audio callback
    joined,           \* the workers stop() has waited for
    last_read,        \* outcome of the pump's latest AoaHost.read:
                      \* "none", "data", "timeout" or "fatal"
    decoded,          \* what the decoder thread took for decode(), in
                      \* order: the payload and the decoder's SPS and PPS
                      \* at that moment
    zombiePc,         \* a USB_Pump thread of an earlier start() that
                      \* outlived stop(): its position in the pump loop
    restarts,         \* number of start() calls on a pipeline that had
                      \* been started before
    stops,            \* number of stop() calls that have returned
    \* ---- an Authenticator on its own
    auth_signing_key, \* Authenticator._signing_key: "None" or "key"
    auth_key_loaded,  \* Authenticator._key_loaded
    auth_last_error,  \* Authenticator.last_error
    auth_log,         \* the calls made on it and what they returned
    \* ---- an AoaHost on its own, with the USB bus as its environment
    aoa_pc,           \* position of the caller inside connect_to_device
    aoa_device,       \* AoaHost._device: "None" or "accessory"
    aoa_connected,    \* AoaHost._connected
    aoa_endpoint_in,  \* AoaHost._endpoint_in is set
    aoa_endpoint_out, \* AoaHost._endpoint_out is set
    string_index,     \* _send_accessory_strings: position in strings
    usb_log,          \* the USB operations of the latest
                      \* connect_to_device call, in order
    polls,            \* connect_to_device: passes of the wait loop made
    aoa_result,       \* what that call returned: "none" (not yet),
                      \* "True" or "False"
    aoa_io,           \* the latest write or read call and its result
    \* ---- the receive loop of the GUI (MainWindow._receive_loop)
    gui_pc,           \* position of the connect thread in the loop
    gui_running,      \* MainWindow._running
    gui_connected,    \* AoaHost._connected, as the loop reads it
    gui_stream,       \* bytes the device still has to deliver
    gui_buffer,       \* the loop's local buffer
    gui_routed,       \* the calls _handle_packet(type, payload), in order
    \* ---- a StreamBridge with its USB_Bridge thread and its MPV process
    br_pc,            \* position of the USB_Bridge thread in _usb_loop
    br_running,       \* StreamBridge._running
    br_callback,      \* StreamBridge._config_callback is set
    br_stream,        \* bytes the device still has to deliver
    br_buffer,        \* the loop's local buffer
    br_sps,           \* StreamBridge._sps (<< >> for None)
    br_pps,           \* StreamBridge._pps (<< >> for None)
    br_config_sent,   \* StreamBridge._config_sent
    br_mpv,           \* the video MPVBridge: state is "running", "broken"
                      \* (the process is gone, the bridge has not noticed)
                      \* or "stopped"; stdin the byte strings the process
                      \* was given, in order
    br_config_calls,  \* the calls of the config callback, in order
    br_status,        \* the messages handed to _report_status, in order
    br_writes,        \* the AoaHost.write calls and what they returned
    br_routed,        \* the calls _handle_packet(type, payload), in order
    \* ---- a PyAVDecoder driven by the pump and the decoder thread
    di_pc,            \* position of each of the two threads
    di_todo,          \* what the pump still has to route: "sps", "pps"
                      \* and "video" packets
    di_queue,         \* number of payloads in the video queue
    di_sps,           \* PyAVDecoder._sps is set
    di_pps,           \* PyAVDecoder._pps is set
    di_running,       \* PyAVDecoder._running
    di_codec_ctx,     \* PyAVDecoder._codec_ctx: "None", or the thread
                      \* that created the context
    di_created        \* the threads that created a codec context, in
                      \* order of creation

fqVars == << fq_queue, fq_dropped_frames, fq_total_frames >>

authVars == << auth_signing_key, auth_key_loaded, auth_last_error,
              auth_log >>

aoaVars == << aoa_pc, aoa_device, aoa_connected, aoa_endpoint_in,
             aoa_endpoint_out, string_index, usb_log, polls, aoa_result,
             aoa_io >>

guiVars == << gui_pc, gui_running, gui_connected, gui_stream, gui_buffer,
             gui_routed >>

bridgeVars == << br_pc, br_running, br_callback, br_stream, br_buffer,
                br_sps, br_pps, br_config_sent, br_mpv, br_config_calls,
                br_status, br_writes, br_routed >>

initVars == << di_pc, di_todo, di_queue, di_sps, di_pps, di_running,
              di_codec_ctx, di_created >>

restartVars == << zombiePc, restarts, stops >>

\* the objects exercised on their own
aloneVars == << hdrData, hdrResult, dq_maxsize, dq_items, dq_waiting,
               dq_puts, dq_fresh, dq_flags, dq_got, fqVars, authVars,
               aoaVars, guiVars, bridgeVars, initVars >>

codecVars == << aloneVars, restartVars >>

envVars == << connected, key_loaded, audio_callback, codec_ok, sent, noise,
             inserted >>

pipeVars == << stream, running, video_queue, audio_queue, frame_queue,
               sdl_window, sdl_running, dec_sps, dec_pps, dec_running,
               ctlPc, usbPc, buffer, decPc, h264_data, renPc, frame,
               routed, writes, resyncs, audio_out, joined, last_read,
               decoded >>

vars == << codecVars, envVars, pipeVars >>

\* The pipeline as __init__ leaves it (pipeline.py 63-85)
PipelineConstructed ==
    /\ running = FALSE
    /\ video_queue = << >>
    /\ audio_queue = << >>
    /\ frame_queue = << >>
    /\ sdl_window = "None"
    /\ sdl_running = FALSE
    /\ dec_sps = << >>
    /\ dec_pps = << >>
    /\ dec_running = FALSE
    /\ ctlPc = "idle"
    /\ usbPc = "none"
    /\ buffer = << >>
    /\ decPc = "none"
    /\ h264_data = << >>
    /\ renPc = "none"
    /\ frame = << >>
    /\ routed = << >>
    /\ writes = << >>
    /\ resyncs = 0
    /\ audio_out = << >>
    /\ joined = {}
    /\ last_read = "none"
    /\ decoded = << >>

\* No pipeline at all: the state of the pipeline variables in the
\* specifications that exercise the codec alone.
PipelineAbsent ==
    /\ PipelineConstructed
    /\ stream = << >>
    /\ connected = FALSE
    /\ key_loaded = FALSE
    /\ audio_callback = FALSE
    /\ codec_ok = FALSE
    /\ sent = << >>
    /\ noise = << >>
    /\ inserted = << >>

\* A FrameQueue as __init__ leaves it (frame_queue.py 8-11)
FrameQueueIdle ==
    /\ fq_queue = << >>
    /\ fq_dropped_frames = 0
    /\ fq_total_frames = 0

QueueIdle ==
    /\ FrameQueueIdle
    /\ dq_maxsize = 1
    /\ dq_items = << >>
    /\ dq_waiting = {}
    /\ dq_puts = 0
    /\ dq_fresh = FALSE
    /\ dq_flags = << >>
    /\ dq_got = << >>

CodecIdle ==
    /\ hdrData = << >>
    /\ hdrResult = [kind |-> "unparsed"]
    /\ QueueIdle

\* An Authenticator as __init__ leaves it (auth.py 18-21)
AuthIdle ==
    /\ auth_signing_key = "None"
    /\ auth_key_loaded = FALSE
    /\ auth_last_error = ""
    /\ auth_log = << >>

\* An AoaHost as __init__ leaves it (aoa.py 37-44)
AoaIdle ==
    /\ aoa_pc = "idle"
    /\ aoa_device = "None"
    /\ aoa_connected = FALSE
    /\ aoa_endpoint_in = FALSE
    /\ aoa_endpoint_out = FALSE
    /\ string_index = 0
    /\ usb_log = << >>
    /\ polls = 0
    /\ aoa_result = "none"
    /\ aoa_io = [op |-> "none"]

\* No GUI receive loop
GuiIdle ==
    /\ gui_pc = "none"
    /\ gui_running = FALSE
    /\ gui_connected = FALSE
    /\ gui_stream = << >>
    /\ gui_buffer = << >>
    /\ gui_routed = << >>

\* No StreamBridge
BridgeIdle ==
    /\ br_pc = "none"
    /\ br_running = FALSE
    /\ br_callback = FALSE
    /\ br_stream = << >>
    /\ br_buffer = << >>
    /\ br_sps = << >>
    /\ br_pps = << >>
    /\ br_config_sent = FALSE
    /\ br_mpv = [state |-> "stopped", stdin |-> << >>]
    /\ br_config_calls = << >>
    /\ br_status = << >>
    /\ br_writes = << >>
    /\ br_routed = << >>

\* No PyAVDecoder on its own
DecoderInitIdle ==
    /\ di_pc = [t \in {"pump", "dec"} |-> "none"]
    /\ di_todo = << >>
    /\ di_queue = 0
    /\ di_sps = FALSE
    /\ di_pps = FALSE
    /\ di_running = FALSE
    /\ di_codec_ctx = "None"
    /\ di_created = << >>

\* No start() and no stop() yet
RestartIdle ==
    /\ zombiePc = "none"
    /\ restarts = 0
    /\ stops = 0

(***************************************************************************)
(* StreamPipeline._handle_packet (pipeline.py 202-258)                     *)
(* One operator per piece of state the handler assigns; HandlePacket puts  *)
(* them together.                                                          *)
(***************************************************************************)
\* 205-210: the video queue after the handler
handle_video(q, packet_type, payload) ==
    IF packet_type = VIDEO
    THEN put_nowait(q, VIDEO_QUEUE_MAXSIZE, payload)
    ELSE q

\* 212-217: the audio queue after put_nowait
audio_after_put(q, packet_type, payload) ==
    IF packet_type = AUDIO
    THEN put_nowait(q, AUDIO_QUEUE_MAXSIZE, payload)
    ELSE q

\* 219-225: with a callback installed the handler takes the head of the
\* queue back out and hands it to the callback
audio_notify(q, packet_type) ==
    packet_type = AUDIO /\ audio_callback /\ Len(q) > 0

\* handle_config_sps testing for the wrong subtype: an SPS never reaches
\* the decoder
handle_config_sps_wrong_subtype(sps, packet_type, payload) ==
    IF packet_type = CONFIG /\ Len(payload) >= 1 /\ payload[1] = AUDIO_AAC
    THEN EnsureStartCode(Tail(payload))
    ELSE sps

\* 229-237: the decoder's SPS after the handler (PyAVDecoder.set_sps)
handle_config_sps(sps, packet_type, payload) ==
    IF packet_type = CONFIG /\ Len(payload) >= 1 /\ payload[1] = VIDEO_SPS
    THEN EnsureStartCode(Tail(payload))
    ELSE sps

\* 229-237: the decoder's PPS after the handler (PyAVDecoder.set_pps)
handle_config_pps(pps, packet_type, payload) ==
    IF packet_type = CONFIG /\ Len(payload) >= 1 /\ payload[1] = VIDEO_PPS
    THEN EnsureStartCode(Tail(payload))
    ELSE pps

\* PyAVDecoder._initialize_decoder (139-220): the decoder's _running after
\* an attempt to initialize with the given SPS and PPS
initialize_decoder(is_running, sps, pps) ==
    IF is_running
    THEN TRUE
    ELSE IF Len(sps) = 0 \/ Len(pps) = 0
         THEN FALSE
         ELSE codec_ok

\* set_sps / set_pps (119-121, 135-137): initialize once both are there
handle_config_init(is_running, packet_type, payload, sps, pps) ==
    IF /\ packet_type = CONFIG
       /\ Len(payload) >= 1
       /\ payload[1] \in {VIDEO_SPS, VIDEO_PPS}
       /\ Len(sps) > 0
       /\ Len(pps) > 0
       /\ ~is_running
    THEN initialize_decoder(is_running, sps, pps)
    ELSE is_running

\* handle_auth_challenge answering with the bare signature, no header
handle_auth_challenge_bare(packet_type, payload) ==
    IF packet_type = AUTH_CHALLENGE
    THEN LET signature == sign_challenge(key_loaded, payload)
         IN  IF signature.kind = "bytes"
             THEN << signature.value >>
             ELSE << >>
    ELSE << >>

\* handle_auth_challenge answering a challenge it could not sign with an
\* empty AuthResponse
handle_auth_challenge_empty_response(packet_type, payload) ==
    IF packet_type = AUTH_CHALLENGE
    THEN LET signature == sign_challenge(key_loaded, payload)
         IN  IF signature.kind = "bytes"
             THEN << create_header(AUTH_RESPONSE, Len(signature.value))
                       \o signature.value >>
             ELSE << create_header(AUTH_RESPONSE, 0) >>
    ELSE << >>

\* 243-251: what the handler hands to AoaHost.write (<< >>: no call)
handle_auth_challenge(packet_type, payload) ==
    IF packet_type = AUTH_CHALLENGE
    THEN LET signature == sign_challenge(key_loaded, payload)
         IN  IF signature.kind = "bytes"
             THEN << create_header(AUTH_RESPONSE, Len(signature.value))
                       \o signature.value >>
             ELSE << >>
    ELSE << >>

\* handle_auth_fail that only reports the failure
handle_auth_fail_ignored(is_running, packet_type) == is_running

\* 256-258: the running flag after the handler
handle_auth_fail(is_running, packet_type) ==
    IF packet_type = AUTH_FAIL THEN FALSE ELSE is_running

HandlePacket(packet_type, payload) ==
    LET q == audio_after_put(audio_queue, packet_type, payload)
        sps == handle_config_sps(dec_sps, packet_type, payload)
        pps == handle_config_pps(dec_pps, packet_type, payload)
    IN  /\ routed' = Append(routed, << packet_type, payload >>)
        /\ video_queue' = handle_video(video_queue, packet_type, payload)
        /\ IF audio_notify(q, packet_type)
           THEN /\ audio_queue' = Tail(q)
                /\ audio_out' = Append(audio_out, Head(q))
           ELSE /\ audio_queue' = q
                /\ audio_out' = audio_out
        /\ dec_sps' = sps
        /\ dec_pps' = pps
        /\ dec_running' =
              handle_config_init(dec_running, packet_type, payload, sps, pps)
        /\ writes' = writes \o handle_auth_challenge(packet_type, payload)
        /\ running' = handle_auth_fail(running, packet_type)

(***************************************************************************)
(* StreamPipeline._usb_pump_loop (pipeline.py 159-200)                     *)
(***************************************************************************)
\* 168: the loop condition
UsbLoop ==
    /\ usbPc = "loop"
    /\ usbPc' = IF running /\ connected THEN "read" ELSE "exit"
    /\ UNCHANGED << codecVars, envVars, last_read, decoded,
                    stream, running, video_queue,
                    audio_queue, frame_queue, sdl_window, sdl_running,
                    dec_sps, dec_pps, dec_running, ctlPc, buffer, decPc,
                    h264_data, renPc, frame, routed, writes, resyncs,
                    audio_out, joined >>

\* 170, 178: AoaHost.read returned n bytes; buffer.extend(data)
UsbReadData ==
    /\ usbPc = "read"
    /\ connected
    /\ \E n \in 1..Len(stream) :
          /\ buffer' = buffer \o SubSeq(stream, 1, n)
          /\ stream' = DropFirst(stream, n)
    /\ usbPc' = "demux"
    /\ last_read' = "data"
    /\ UNCHANGED << codecVars, envVars, decoded,
                    running, video_queue,
                    audio_queue, frame_queue, sdl_window, sdl_running,
                    dec_sps, dec_pps, dec_running, ctlPc, decPc,
                    h264_data, renPc, frame, routed, writes, resyncs,
                    audio_out, joined >>

\* UsbReadTimeout taking the empty read for an error: break
UsbReadTimeoutBreaks ==
    /\ usbPc = "read"
    /\ connected
    /\ usbPc' = "exit"
    /\ last_read' = "timeout"
    /\ UNCHANGED << codecVars, envVars, decoded,
                    stream, running, video_queue,
                    audio_queue, frame_queue, sdl_window, sdl_running,
                    dec_sps, dec_pps, dec_running, ctlPc, buffer, decPc,
                    h264_data, renPc, frame, routed, writes, resyncs,
                    audio_out, joined >>

\* 170, 175-176: AoaHost.read timed out and returned b''
UsbReadTimeout ==
    /\ usbPc = "read"
    /\ connected
    /\ usbPc' = "loop"
    /\ last_read' = "timeout"
    /\ UNCHANGED << codecVars, envVars, decoded,
                    stream, running, video_queue,
                    audio_queue, frame_queue, sdl_window, sdl_running,
                    dec_sps, dec_pps, dec_running, ctlPc, buffer, decPc,
                    h264_data, renPc, frame, routed, writes, resyncs,
                    audio_out, joined >>

\* 170-174: AoaHost.read returned None (USBError); break
UsbReadFatal ==
    /\ usbPc = "read"
    /\ usbPc' = "exit"
    /\ last_read' = "fatal"
    /\ UNCHANGED << codecVars, envVars, decoded,
                    stream, running, video_queue,
                    audio_queue, frame_queue, sdl_window, sdl_running,
                    dec_sps, dec_pps, dec_running, ctlPc, buffer, decPc,
                    h264_data, renPc, frame, routed, writes, resyncs,
                    audio_out, joined >>

\* 181: the inner loop ends, the buffer holds less than a header
UsbDemuxShort ==
    /\ usbPc = "demux"
    /\ Len(buffer) < HEADER_TOTAL_SIZE
    /\ usbPc' = "loop"
    /\ UNCHANGED << codecVars, envVars, last_read, decoded,
                    stream, running, video_queue,
                    audio_queue, frame_queue, sdl_window, sdl_running,
                    dec_sps, dec_pps, dec_running, ctlPc, buffer, decPc,
                    h264_data, renPc, frame, routed, writes, resyncs,
                    audio_out, joined >>

\* 182: parse_header raised; nothing in the loop catches it, the thread
\* ends with the exception and line 200 is not reached
UsbDemuxRaise ==
    /\ usbPc = "demux"
    /\ Len(buffer) >= HEADER_TOTAL_SIZE
    /\ parse_header(TakeFirst(buffer, HEADER_TOTAL_SIZE)).kind = "raise"
    /\ usbPc' = "crashed"
    /\ UNCHANGED << codecVars, envVars, last_read, decoded,
                    stream, running, video_queue,
                    audio_queue, frame_queue, sdl_window, sdl_running,
                    dec_sps, dec_pps, dec_running, ctlPc, buffer, decPc,
                    h264_data, renPc, frame, routed, writes, resyncs,
                    audio_out, joined >>

\* skip_one_byte dropping the whole rejected header instead of one byte
skip_whole_header(buf) == DropFirst(buf, HEADER_TOTAL_SIZE)

\* 185: buffer = buffer[1:]
skip_one_byte(buf) == DropFirst(buf, 1)

\* 183-186: invalid header, skip one byte
UsbDemuxResync ==
    /\ usbPc = "demux"
    /\ Len(buffer) >= HEADER_TOTAL_SIZE
    /\ parse_header(TakeFirst(buffer, HEADER_TOTAL_SIZE)) = NoneValue
    /\ buffer' = skip_one_byte(buffer)
    /\ resyncs' = resyncs + 1
    /\ UNCHANGED << codecVars, envVars, last_read, decoded,
                    stream, running, video_queue,
                    audio_queue, frame_queue, sdl_window, sdl_running,
                    dec_sps, dec_pps, dec_running, ctlPc, usbPc, decPc,
                    h264_data, renPc, frame, routed, writes,
                    audio_out, joined >>

\* UsbDemuxIncomplete with the comparison off by one: a packet that has
\* just become complete is still taken for an incomplete one
UsbDemuxIncompleteLe ==
    /\ usbPc = "demux"
    /\ Len(buffer) >= HEADER_TOTAL_SIZE
    /\ LET header == parse_header(TakeFirst(buffer, HEADER_TOTAL_SIZE))
       IN  /\ header.kind = "PacketHeader"
           /\ Len(buffer) <= HEADER_TOTAL_SIZE + header.length
    /\ usbPc' = "loop"
    /\ UNCHANGED << codecVars, envVars, last_read, decoded,
                    stream, running, video_queue,
                    audio_queue, frame_queue, sdl_window, sdl_running,
                    dec_sps, dec_pps, dec_running, ctlPc, buffer, decPc,
                    h264_data, renPc, frame, routed, writes, resyncs,
                    audio_out, joined >>

\* 188-191: incomplete packet, wait for more data
UsbDemuxIncomplete ==
    /\ usbPc = "demux"
    /\ Len(buffer) >= HEADER_TOTAL_SIZE
    /\ LET header == parse_header(TakeFirst(buffer, HEADER_TOTAL_SIZE))
       IN  /\ header.kind = "PacketHeader"
           /\ Len(buffer) < HEADER_TOTAL_SIZE + header.length
    /\ usbPc' = "loop"
    /\ UNCHANGED << codecVars, envVars, last_read, decoded,
                    stream, running, video_queue,
                    audio_queue, frame_queue, sdl_window, sdl_running,
                    dec_sps, dec_pps, dec_running, ctlPc, buffer, decPc,
                    h264_data, renPc, frame, routed, writes, resyncs,
                    audio_out, joined >>

\* extract_payload that forgets the header in front: buffer[:length]
extract_payload_from_start(buf, total_size) ==
    TakeFirst(buf, total_size - HEADER_TOTAL_SIZE)

\* 194: payload = bytes(buffer[HEADER_TOTAL_SIZE:total_size])
extract_payload(buf, total_size) ==
    IF total_size > HEADER_TOTAL_SIZE
    THEN SubSeq(buf, HEADER_TOTAL_SIZE + 1, total_size)
    ELSE << >>

\* consume_packet with the header forgotten: buffer = buffer[length:]
consume_packet_no_header(buf, total_size) ==
    DropFirst(buf, total_size - HEADER_TOTAL_SIZE)

\* 195: buffer = buffer[total_size:]
consume_packet(buf, total_size) == DropFirst(buf, total_size)

\* 193-198: extract the payload, consume the packet, route it
UsbDemuxPacket ==
    /\ usbPc = "demux"
    /\ Len(buffer) >= HEADER_TOTAL_SIZE
    /\ LET header == parse_header(TakeFirst(buffer, HEADER_TOTAL_SIZE))
       IN  /\ header.kind = "PacketHeader"
           /\ LET total_size == HEADER_TOTAL_SIZE + header.length
              IN  /\ Len(buffer) >= total_size
                  /\ buffer' = consume_packet(buffer, total_size)
                  /\ HandlePacket(header.type,
                                  extract_payload(buffer, total_size))
    /\ UNCHANGED << codecVars, envVars, last_read, decoded,
                    stream, frame_queue, sdl_window,
                    sdl_running, ctlPc, usbPc, decPc, h264_data, renPc,
                    frame, resyncs, joined >>

\* UsbExit without line 200: the pump ends and leaves the flag alone
UsbExitKeepsRunning ==
    /\ usbPc = "exit"
    /\ usbPc' = "done"
    /\ UNCHANGED << codecVars, envVars, last_read, decoded,
                    stream, running, video_queue,
                    audio_queue, frame_queue, sdl_window, sdl_running,
                    dec_sps, dec_pps, dec_running, ctlPc, buffer, decPc,
                    h264_data, renPc, frame, routed, writes, resyncs,
                    audio_out, joined >>

\* 200: self._running = False
UsbExit ==
    /\ usbPc = "exit"
    /\ running' = FALSE
    /\ usbPc' = "done"
    /\ UNCHANGED << codecVars, envVars, last_read, decoded,
                    stream, video_queue,
                    audio_queue, frame_queue, sdl_window, sdl_running,
                    dec_sps, dec_pps, dec_running, ctlPc, buffer, decPc,
                    h264_data, renPc, frame, routed, writes, resyncs,
                    audio_out, joined >>

UsbPump ==
    \/ UsbLoop
    \/ UsbReadData
    \/ UsbReadTimeout
    \/ UsbReadFatal
    \/ UsbDemuxShort
    \/ UsbDemuxRaise
    \/ UsbDemuxResync
    \/ UsbDemuxIncomplete
    \/ UsbDemuxPacket
    \/ UsbExit

(***************************************************************************)
(* StreamPipeline.start (pipeline.py 95-132)                               *)
(* The controller calls start() on a pipeline it has just constructed;     *)
(* start() on a pipeline that ran before is the action Restart.            *)
(***************************************************************************)
\* 97-132: the SDL window starts, the three threads are launched
StartOk ==
    /\ ctlPc = "idle"
    /\ ~running
    /\ running' = TRUE
    /\ sdl_window' = "window"
    /\ sdl_running' = TRUE
    /\ usbPc' = "loop"
    /\ decPc' = "loop"
    /\ renPc' = "loop"
    /\ ctlPc' = "started"
    /\ UNCHANGED << codecVars, envVars, last_read, decoded,
                    stream, video_queue, audio_queue,
                    frame_queue, dec_sps, dec_pps, dec_running, buffer,
                    h264_data, frame, routed, writes, resyncs, audio_out,
                    joined >>

\* 100-107: SDLVideoWindow.start() returned False
StartSdlFailed ==
    /\ ctlPc = "idle"
    /\ ~running
    /\ running' = FALSE
    /\ sdl_window' = "window"
    /\ sdl_running' = FALSE
    /\ ctlPc' = "failed"
    /\ UNCHANGED << codecVars, envVars, last_read, decoded,
                    stream, video_queue, audio_queue,
                    frame_queue, dec_sps, dec_pps, dec_running, usbPc,
                    buffer, decPc, h264_data, renPc, frame, routed, writes,
                    resyncs, audio_out, joined >>

\* 97-98: start() on a running pipeline returns True and does nothing
StartAgain ==
    /\ ctlPc = "started"
    /\ running
    /\ UNCHANGED vars

(***************************************************************************)
(* StreamPipeline.stop (pipeline.py 134-157)                               *)
(***************************************************************************)
MaxStops == 2

MaxRestarts == 1

\* thread.is_alive()
Alive(pc) == pc \notin {"none", "done", "crashed"}

\* 136-139: self._running = False; self._video_decoder.stop()
StopBegin ==
    /\ ctlPc \in {"idle", "started", "failed"}
    /\ stops < MaxStops
    /\ running' = FALSE
    /\ dec_running' = FALSE
    /\ ctlPc' = "stop_sdl"
    /\ UNCHANGED << codecVars, envVars, last_read, decoded,
                    stream, video_queue, audio_queue,
                    frame_queue, sdl_window, sdl_running, dec_sps, dec_pps,
                    usbPc, buffer, decPc, h264_data, renPc, frame, routed,
                    writes, resyncs, audio_out, joined >>

\* stop() calling self._sdl_window.stop() without looking at the reference
stop_has_window_unguarded(window) == TRUE

\* 142: if self._sdl_window:
stop_has_window(window) == window # "None"

\* 142-144: stop the SDL window and drop the reference; .stop() on None
\* would raise AttributeError out of stop()
StopSdl ==
    /\ ctlPc = "stop_sdl"
    /\ IF stop_has_window(sdl_window)
       THEN IF sdl_window = "None"
            THEN /\ ctlPc' = "raised"
                 /\ UNCHANGED << sdl_running, sdl_window >>
            ELSE /\ sdl_running' = FALSE
                 /\ sdl_window' = "None"
                 /\ ctlPc' = "stop_queues"
       ELSE /\ ctlPc' = "stop_queues"
            /\ UNCHANGED << sdl_running, sdl_window >>
    /\ UNCHANGED << codecVars, envVars, last_read, decoded,
                    stream, running, video_queue,
                    audio_queue, frame_queue, dec_sps, dec_pps,
                    dec_running, usbPc, buffer, decPc, h264_data, renPc,
                    frame, routed, writes, resyncs, audio_out, joined >>

\* 147-149: two new Queue objects, DroppingQueue.clear()
StopQueues ==
    /\ ctlPc = "stop_queues"
    /\ video_queue' = << >>
    /\ audio_queue' = << >>
    /\ frame_queue' = << >>
    /\ ctlPc' = "join_usb"
    /\ UNCHANGED << codecVars, envVars, last_read, decoded,
                    stream, running, sdl_window,
                    sdl_running, dec_sps, dec_pps, dec_running, usbPc,
                    buffer, decPc, h264_data, renPc, frame, routed, writes,
                    resyncs, audio_out, joined >>

\* 152-153: the USB thread has ended (before or during the join)
StopJoinUsb ==
    /\ ctlPc = "join_usb"
    /\ ~Alive(usbPc)
    /\ joined' = joined \cup {"usb"}
    /\ ctlPc' = "join_dec"
    /\ UNCHANGED << codecVars, envVars, last_read, decoded,
                    stream, running, video_queue,
                    audio_queue, frame_queue, sdl_window, sdl_running,
                    dec_sps, dec_pps, dec_running, usbPc, buffer, decPc,
                    h264_data, renPc, frame, routed, writes, resyncs,
                    audio_out >>

\* 153: join(timeout=1.0) returned with the USB thread still alive
StopJoinUsbTimeout ==
    /\ ctlPc = "join_usb"
    /\ Alive(usbPc)
    /\ joined' = joined \cup {"usb"}
    /\ ctlPc' = "join_dec"
    /\ UNCHANGED << codecVars, envVars, last_read, decoded,
                    stream, running, video_queue,
                    audio_queue, frame_queue, sdl_window, sdl_running,
                    dec_sps, dec_pps, dec_running, usbPc, buffer, decPc,
                    h264_data, renPc, frame, routed, writes, resyncs,
                    audio_out >>

\* 154-157: the decoder thread has ended; stop() returns
StopJoinDec ==
    /\ ctlPc = "join_dec"
    /\ ~Alive(decPc)
    /\ joined' = joined \cup {"dec"}
    /\ ctlPc' = "stopped"
    /\ stops' = stops + 1
    /\ UNCHANGED << aloneVars, zombiePc, restarts, envVars, last_read,
                    decoded,
                    stream, running, video_queue,
                    audio_queue, frame_queue, sdl_window, sdl_running,
                    dec_sps, dec_pps, dec_running, usbPc, buffer, decPc,
                    h264_data, renPc, frame, routed, writes, resyncs,
                    audio_out >>

\* 155-157: join(timeout=1.0) returned with the decoder thread alive
StopJoinDecTimeout ==
    /\ ctlPc = "join_dec"
    /\ Alive(decPc)
    /\ joined' = joined \cup {"dec"}
    /\ ctlPc' = "stopped"
    /\ stops' = stops + 1
    /\ UNCHANGED << aloneVars, zombiePc, restarts, envVars, last_read,
                    decoded,
                    stream, running, video_queue,
                    audio_queue, frame_queue, sdl_window, sdl_running,
                    dec_sps, dec_pps, dec_running, usbPc, buffer, decPc,
                    h264_data, renPc, frame, routed, writes, resyncs,
                    audio_out >>

Stop ==
    \/ StopBegin
    \/ StopSdl
    \/ StopQueues
    \/ StopJoinUsb
    \/ StopJoinUsbTimeout
    \/ StopJoinDec
    \/ StopJoinDecTimeout

(***************************************************************************)
(* StreamPipeline._decoder_loop (pipeline.py 260-283)                      *)
(***************************************************************************)
\* 266: the loop condition
DecLoop ==
    /\ decPc = "loop"
    /\ decPc' = IF running THEN "get" ELSE "done"
    /\ UNCHANGED << codecVars, envVars, last_read, decoded,
                    stream, running, video_queue,
                    audio_queue, frame_queue, sdl_window, sdl_running,
                    dec_sps, dec_pps, dec_running, ctlPc, usbPc, buffer,
                    h264_data, renPc, frame, routed, writes, resyncs,
                    audio_out, joined >>

\* 269: Queue.get(timeout=0.1) returned a payload
DecGet ==
    /\ decPc = "get"
    /\ Len(video_queue) > 0
    /\ h264_data' = Head(video_queue)
    /\ video_queue' = Tail(video_queue)
    /\ decPc' = "decode"
    /\ decoded' = Append(decoded, [payload |-> Head(video_queue),
                                    sps |-> dec_sps, pps |-> dec_pps])
    /\ UNCHANGED << codecVars, envVars, last_read,
                    stream, running, audio_queue,
                    frame_queue, sdl_window, sdl_running, dec_sps, dec_pps,
                    dec_running, ctlPc, usbPc, buffer, renPc, frame,
                    routed, writes, resyncs, audio_out, joined >>

\* 269, 280-281: the get timed out (queue.Empty); continue
DecGetEmpty ==
    /\ decPc = "get"
    /\ Len(video_queue) = 0
    /\ decPc' = "loop"
    /\ UNCHANGED << codecVars, envVars, last_read, decoded,
                    stream, running, video_queue,
                    audio_queue, frame_queue, sdl_window, sdl_running,
                    dec_sps, dec_pps, dec_running, ctlPc, usbPc, buffer,
                    h264_data, renPc, frame, routed, writes, resyncs,
                    audio_out, joined >>

\* PyAVDecoder.decode 232-238: the decoder's _running when decode() goes on
\* to the codec (it initializes the decoder first when it has to)
decode_ready(is_running, sps, pps) ==
    IF ~is_running
    THEN IF Len(sps) > 0 /\ Len(pps) > 0
         THEN initialize_decoder(is_running, sps, pps)
         ELSE FALSE
    ELSE TRUE

\* 272-278: decode() returned a frame, which is put on the frame queue.
\* A frame is named by the payload it was decoded from.
DecDecodeFrame ==
    /\ decPc = "decode"
    /\ decode_ready(dec_running, dec_sps, dec_pps)
    /\ dec_running' = TRUE
    /\ frame_queue' =
          DroppingPutItems(frame_queue, FRAME_QUEUE_MAXSIZE, h264_data)
    /\ decPc' = "loop"
    /\ UNCHANGED << codecVars, envVars, last_read, decoded,
                    stream, running, video_queue,
                    audio_queue, sdl_window, sdl_running, dec_sps, dec_pps,
                    ctlPc, usbPc, buffer, h264_data, renPc, frame, routed,
                    writes, resyncs, audio_out, joined >>

\* 272-274: decode() returned None (no configuration, the codec could not
\* be opened, the codec gave no frame or failed on the data)
DecDecodeNone ==
    /\ decPc = "decode"
    /\ dec_running' = decode_ready(dec_running, dec_sps, dec_pps)
    /\ decPc' = "loop"
    /\ UNCHANGED << codecVars, envVars, last_read, decoded,
                    stream, running, video_queue,
                    audio_queue, frame_queue, sdl_window, sdl_running,
                    dec_sps, dec_pps, ctlPc, usbPc, buffer, h264_data,
                    renPc, frame, routed, writes, resyncs, audio_out,
                    joined >>

Decoder ==
    \/ DecLoop
    \/ DecGet
    \/ DecGetEmpty
    \/ DecDecodeFrame
    \/ DecDecodeNone

(***************************************************************************)
(* render_poll (pipeline.py 289-297) and DroppingQueue.get (68-86)         *)
(***************************************************************************)
\* 290: self._running and self._sdl_window
RenLoop ==
    /\ renPc = "loop"
    /\ renPc' = IF running /\ sdl_window # "None" THEN "is_running" ELSE "done"
    /\ UNCHANGED << codecVars, envVars, last_read, decoded,
                    stream, running, video_queue,
                    audio_queue, frame_queue, sdl_window, sdl_running,
                    dec_sps, dec_pps, dec_running, ctlPc, usbPc, buffer,
                    decPc, h264_data, frame, routed, writes, resyncs,
                    audio_out, joined >>

\* 290: self._sdl_window.is_running, a second read of the reference
RenIsRunning ==
    /\ renPc = "is_running"
    /\ renPc' = IF sdl_window = "None" THEN "crashed"
                ELSE IF sdl_running THEN "get" ELSE "done"
    /\ UNCHANGED << codecVars, envVars, last_read, decoded,
                    stream, running, video_queue,
                    audio_queue, frame_queue, sdl_window, sdl_running,
                    dec_sps, dec_pps, dec_running, ctlPc, usbPc, buffer,
                    decPc, h264_data, frame, routed, writes, resyncs,
                    audio_out, joined >>

\* 291, dropping_queue.py 78-86: an item is there, or the wait begins
RenGet ==
    /\ renPc = "get"
    /\ IF Len(frame_queue) > 0
       THEN /\ frame' = Head(frame_queue)
            /\ frame_queue' = Tail(frame_queue)
            /\ renPc' = "frame"
       ELSE /\ renPc' = "wait"
            /\ UNCHANGED << frame, frame_queue >>
    /\ UNCHANGED << codecVars, envVars, last_read, decoded,
                    stream, running, video_queue,
                    audio_queue, sdl_window, sdl_running, dec_sps, dec_pps,
                    dec_running, ctlPc, usbPc, buffer, decPc, h264_data,
                    routed, writes, resyncs, audio_out, joined >>

\* dropping_queue.py 83-86: woken by notify or by the timeout
RenWake ==
    /\ renPc = "wait"
    /\ IF Len(frame_queue) > 0
       THEN /\ frame' = Head(frame_queue)
            /\ frame_queue' = Tail(frame_queue)
            /\ renPc' = "frame"
       ELSE /\ renPc' = "loop"
            /\ UNCHANGED << frame, frame_queue >>
    /\ UNCHANGED << codecVars, envVars, last_read, decoded,
                    stream, running, video_queue,
                    audio_queue, sdl_window, sdl_running, dec_sps, dec_pps,
                    dec_running, ctlPc, usbPc, buffer, decPc, h264_data,
                    routed, writes, resyncs, audio_out, joined >>

\* 292: if frame and self._sdl_window
RenHaveWindow ==
    /\ renPc = "frame"
    /\ renPc' = IF sdl_window # "None" THEN "update" ELSE "loop"
    /\ UNCHANGED << codecVars, envVars, last_read, decoded,
                    stream, running, video_queue,
                    audio_queue, frame_queue, sdl_window, sdl_running,
                    dec_sps, dec_pps, dec_running, ctlPc, usbPc, buffer,
                    decPc, h264_data, frame, routed, writes, resyncs,
                    audio_out, joined >>

\* 293-297: self._sdl_window.update_frame(...), a second read
RenUpdate ==
    /\ renPc = "update"
    /\ renPc' = IF sdl_window = "None" THEN "crashed" ELSE "loop"
    /\ UNCHANGED << codecVars, envVars, last_read, decoded,
                    stream, running, video_queue,
                    audio_queue, frame_queue, sdl_window, sdl_running,
                    dec_sps, dec_pps, dec_running, ctlPc, usbPc, buffer,
                    decPc, h264_data, frame, routed, writes, resyncs,
                    audio_out, joined >>

Render ==
    \/ RenLoop
    \/ RenIsRunning
    \/ RenGet
    \/ RenWake
    \/ RenHaveWindow
    \/ RenUpdate

(***************************************************************************)
(* SDLVideoWindow._run (sdl_video.py 178-185): SDL_QUIT or the window's    *)
(* close event ends the window's own loop                                  *)
(***************************************************************************)
SdlClose ==
    /\ sdl_running
    /\ sdl_running' = FALSE
    /\ UNCHANGED << codecVars, envVars, last_read, decoded,
                    stream, running, video_queue,
                    audio_queue, frame_queue, sdl_window, dec_sps, dec_pps,
                    dec_running, ctlPc, usbPc, buffer, decPc, h264_data,
                    renPc, frame, routed, writes, resyncs, audio_out,
                    joined >>

(***************************************************************************)
(* Specification SpecHeader: parse_header applied to bounded inputs        *)
(***************************************************************************)
MaxHdrLen == 6

\* first bytes tried: every member, the neighbours of the members, others
TypeSamples == {0, 1, 2, 3, 4, 5, 15, 16, 17, 18, 19, 20, 170, 255}

\* bytes tried in the other positions: enough to write the lengths
\* 0, 1, 65535, 65536, 65537, 2^32 - 1
LenSamples == {0, 1, 255}

HeaderInputs ==
    { << >> } \cup
    UNION { { << t >> \o r : t \in TypeSamples, r \in [1..n -> LenSamples] }
            : n \in 0..(MaxHdrLen - 1) }

Unparsed == [kind |-> "unparsed"]

InitHeader ==
    /\ BridgeIdle /\ DecoderInitIdle
    /\ AuthIdle /\ AoaIdle /\ GuiIdle /\ RestartIdle
    /\ hdrData \in HeaderInputs
    /\ hdrResult = Unparsed
    /\ QueueIdle
    /\ PipelineAbsent

ParseHeaderCall ==
    /\ hdrResult = Unparsed
    /\ hdrResult' = parse_header(hdrData)
    /\ UNCHANGED << authVars, aoaVars, guiVars, bridgeVars, initVars, restartVars,
                    fqVars, hdrData, dq_maxsize, dq_items, dq_waiting, dq_puts,
                    dq_fresh, dq_flags, dq_got, envVars, pipeVars >>

NextHeader == ParseHeaderCall

SpecHeader == InitHeader /\ [][NextHeader]_vars

(***************************************************************************)
(* Specification SpecQueue: one DroppingQueue, producers that put the      *)
(* values 1, 2, 3, ... and consumers that get, with and without a timeout  *)
(***************************************************************************)
MaxQueueSize == 2
MaxPuts == 3
MaxGets == 3

Consumers == {1, 2}

\* what a get call returned: the value (0 for None), the number of puts
\* made before it returned, and whether one of them was still untaken
GetResult(items) ==
    [value |-> IF Len(items) > 0 THEN Head(items) ELSE 0,
     latest |-> dq_puts,
     fresh |-> dq_fresh]

InitQueue ==
    /\ BridgeIdle /\ DecoderInitIdle
    /\ AuthIdle /\ AoaIdle /\ GuiIdle /\ RestartIdle
    /\ hdrData = << >>
    /\ hdrResult = [kind |-> "unparsed"]
    /\ PipelineAbsent
    /\ FrameQueueIdle
    /\ dq_maxsize \in 1..MaxQueueSize
    /\ dq_items = << >>
    /\ dq_waiting = {}
    /\ dq_puts = 0
    /\ dq_fresh = FALSE
    /\ dq_flags = << >>
    /\ dq_got = << >>

\* put (48-66)
DqPut ==
    /\ dq_puts < MaxPuts
    /\ dq_items' = DroppingPutItems(dq_items, dq_maxsize, dq_puts + 1)
    /\ dq_flags' = Append(dq_flags, DroppingPutDropped(dq_items, dq_maxsize))
    /\ dq_puts' = dq_puts + 1
    /\ dq_fresh' = TRUE
    /\ UNCHANGED << authVars, aoaVars, guiVars, bridgeVars, initVars, restartVars,
                    fqVars, hdrData, hdrResult, dq_maxsize, dq_waiting, dq_got,
                    envVars, pipeVars >>

\* get with timeout None / get_nowait (78-81, 86, 88-95)
DqGetNowait ==
    /\ Len(dq_got) < MaxGets
    /\ dq_got' = Append(dq_got, GetResult(dq_items))
    /\ dq_items' = DropFirst(dq_items, 1)
    /\ dq_fresh' = (dq_fresh /\ Len(dq_items) = 0)
    /\ UNCHANGED << authVars, aoaVars, guiVars, bridgeVars, initVars, restartVars,
                    fqVars, hdrData, hdrResult, dq_maxsize, dq_waiting, dq_puts,
                    dq_flags, envVars, pipeVars >>

\* get with a timeout (78-83, 86): an item is there, or the wait begins
DqGetEnter(c) ==
    /\ c \notin dq_waiting
    /\ Len(dq_got) + Cardinality(dq_waiting) < MaxGets
    /\ IF Len(dq_items) > 0
       THEN /\ dq_got' = Append(dq_got, GetResult(dq_items))
            /\ dq_items' = Tail(dq_items)
            /\ dq_fresh' = FALSE
            /\ UNCHANGED dq_waiting
       ELSE /\ dq_waiting' = dq_waiting \cup {c}
            /\ UNCHANGED << dq_got, dq_items, dq_fresh >>
    /\ UNCHANGED << authVars, aoaVars, guiVars, bridgeVars, initVars, restartVars,
                    fqVars, hdrData, hdrResult, dq_maxsize, dq_puts, dq_flags,
                    envVars, pipeVars >>

\* DqGetWake returning the head without popping it: the item stays for
\* the next get
DqGetWakeNoPop(c) ==
    /\ c \in dq_waiting
    /\ dq_waiting' = dq_waiting \ {c}
    /\ dq_got' = Append(dq_got, GetResult(dq_items))
    /\ UNCHANGED << authVars, aoaVars, guiVars, bridgeVars, initVars, restartVars,
                    fqVars, hdrData, hdrResult, dq_maxsize, dq_puts, dq_flags,
                    dq_items, dq_fresh, envVars, pipeVars >>

\* get with a timeout (83-86): woken by notify or by the timeout
DqGetWake(c) ==
    /\ c \in dq_waiting
    /\ dq_waiting' = dq_waiting \ {c}
    /\ dq_got' = Append(dq_got, GetResult(dq_items))
    /\ dq_items' = DropFirst(dq_items, 1)
    /\ dq_fresh' = (dq_fresh /\ Len(dq_items) = 0)
    /\ UNCHANGED << authVars, aoaVars, guiVars, bridgeVars, initVars, restartVars,
                    fqVars, hdrData, hdrResult, dq_maxsize, dq_puts, dq_flags,
                    envVars, pipeVars >>

\* clear (97-100)
DqClear ==
    /\ Len(dq_items) > 0
    /\ dq_items' = << >>
    /\ dq_fresh' = FALSE
    /\ UNCHANGED << authVars, aoaVars, guiVars, bridgeVars, initVars, restartVars,
                    fqVars, hdrData, hdrResult, dq_maxsize, dq_waiting, dq_puts,
                    dq_flags, dq_got, envVars, pipeVars >>

NextQueue ==
    \/ DqPut
    \/ DqGetNowait
    \/ \E c \in Consumers : DqGetEnter(c)
    \/ \E c \in Consumers : DqGetWake(c)
    \/ DqClear

SpecQueue == InitQueue /\ [][NextQueue]_vars

(***************************************************************************)
(* Specification SpecFrameQueue: a FrameQueue (frame_queue.py) on its own. *)
(* It is the one queue of the repository that counts its drops; neither    *)
(* StreamPipeline nor StreamBridge constructs one.                         *)
(***************************************************************************)
FRAME_QUEUE_DEFAULT_MAXSIZE == 30

MaxFrames == 32

InitFrameQueue ==
    /\ BridgeIdle /\ DecoderInitIdle
    /\ AuthIdle /\ AoaIdle /\ GuiIdle /\ RestartIdle
    /\ hdrData = << >>
    /\ hdrResult = [kind |-> "unparsed"]
    /\ PipelineAbsent
    /\ FrameQueueIdle
    /\ dq_maxsize = 1
    /\ dq_items = << >>
    /\ dq_waiting = {}
    /\ dq_puts = 0
    /\ dq_fresh = FALSE
    /\ dq_flags = << >>
    /\ dq_got = << >>

\* put (13-26): count the frame, enqueue it, or count the drop
FqPut ==
    /\ fq_total_frames < MaxFrames
    /\ fq_total_frames' = fq_total_frames + 1
    /\ IF Len(fq_queue) < FRAME_QUEUE_DEFAULT_MAXSIZE
       THEN /\ fq_queue' = Append(fq_queue, fq_total_frames + 1)
            /\ UNCHANGED fq_dropped_frames
       ELSE /\ fq_dropped_frames' = fq_dropped_frames + 1
            /\ UNCHANGED fq_queue
    /\ UNCHANGED << authVars, aoaVars, guiVars, bridgeVars, initVars, restartVars,
                    hdrData, hdrResult, dq_maxsize, dq_items, dq_waiting,
                    dq_puts, dq_fresh, dq_flags, dq_got, envVars, pipeVars >>

\* get (28-33): the oldest frame, or None after the timeout
FqGet ==
    /\ fq_queue' = DropFirst(fq_queue, 1)
    /\ UNCHANGED << authVars, aoaVars, guiVars, bridgeVars, initVars, restartVars,
                    fq_dropped_frames, fq_total_frames, hdrData, hdrResult,
                    dq_maxsize, dq_items, dq_waiting, dq_puts, dq_fresh,
                    dq_flags, dq_got, envVars, pipeVars >>

NextFrameQueue == FqPut \/ FqGet

SpecFrameQueue == InitFrameQueue /\ [][NextFrameQueue]_vars

(***************************************************************************)
(* The device's side of the wire                                           *)
(***************************************************************************)
\* One packet on the wire: header, then payload
SerializePacket(pkt) == create_header(pkt[1], Len(pkt[2])) \o pkt[2]

RECURSIVE Serialize(_)
Serialize(pkts) ==
    IF pkts = << >>
    THEN << >>
    ELSE SerializePacket(Head(pkts)) \o Serialize(Tail(pkts))

MaxPackets == 2

ZeroChallenge == [i \in 1..CHALLENGE_SIZE |-> 0]

\* The packets tried: every recognized type with an empty payload, and
\* payloads with content (one of them reads like a header itself)
PacketSamples ==
    { << t, << >> >> : t \in PacketType } \cup
    { << VIDEO, << 7 >> >>,
      << VIDEO, << AUDIO, 0, 0, 0, 0 >> >>,
      << AUDIO, << 1, 2, 3 >> >>,
      << CONFIG, << VIDEO_SPS, 9 >> >>,
      << CONFIG, << VIDEO_PPS, 9 >> >>,
      << AUTH_CHALLENGE, ZeroChallenge >> }

PacketSeqs == UNION { [1..n -> PacketSamples] : n \in 0..MaxPackets }

\* Bytes in front of the first packet: none, one stray byte, an oversize
\* header, an unknown type code in front of a small length
NoiseSamples ==
    { << >>,
      << 170 >>,
      << VIDEO, 255, 255, 255, 255 >>,
      << 170, 0, 0, 0, 5 >> }

(***************************************************************************)
(* Specification SpecPump: the USB pump alone on every stream of the       *)
(* samples, cut into read chunks in every way                              *)
(***************************************************************************)
InitPump ==
    /\ BridgeIdle /\ DecoderInitIdle
    /\ AuthIdle /\ AoaIdle /\ GuiIdle /\ RestartIdle
    /\ CodecIdle
    /\ PipelineConstructed
    /\ connected = TRUE
    /\ key_loaded \in BOOLEAN
    /\ audio_callback = key_loaded
    /\ codec_ok = TRUE
    /\ sent \in PacketSeqs
    /\ noise \in NoiseSamples
    /\ inserted = << >>
    /\ stream = noise \o Serialize(sent)

NextPump ==
    \/ StartOk
    \/ UsbPump

SpecPump == InitPump /\ [][NextPump]_vars

(***************************************************************************)
(* Specification SpecInsert: the USB pump alone on well-formed streams     *)
(* into which the device's link has put one extra byte                     *)
(***************************************************************************)
\* s with the byte b put in behind its first k bytes
InsertAt(s, k, b) == TakeFirst(s, k) \o << b >> \o DropFirst(s, k)

InsertSeqs ==
    { << << VIDEO, << 0, 0, 0, 0, 0 >> >>,
         << AUDIO, << 1, 2, 3 >> >>,
         << VIDEO, << 7 >> >> >>,
      << << AUDIO, << 1, 2, 3 >> >>,
         << VIDEO, << 7 >> >>,
         << CONFIG, << VIDEO_SPS, 9 >> >> >> }

InsertBytes == {0, 1, 170}

InitInsert ==
    /\ BridgeIdle /\ DecoderInitIdle
    /\ AuthIdle /\ AoaIdle /\ GuiIdle /\ RestartIdle
    /\ CodecIdle
    /\ PipelineConstructed
    /\ connected = TRUE
    /\ key_loaded = FALSE
    /\ audio_callback = FALSE
    /\ codec_ok = TRUE
    /\ sent \in InsertSeqs
    /\ noise = << >>
    /\ \E k \in 0..Len(Serialize(sent)), b \in InsertBytes :
          /\ inserted = << k, b >>
          /\ stream = InsertAt(Serialize(sent), k, b)

SpecInsert == InitInsert /\ [][NextPump]_vars

(***************************************************************************)
(* Specification SpecFlood: the USB pump alone, no decoder taking from the *)
(* video queue, on a stream of more Video packets than the queue holds     *)
(***************************************************************************)
FloodPackets ==
    [i \in 1..(VIDEO_QUEUE_MAXSIZE + 1) |-> << VIDEO, << i >> >>]

InitFlood ==
    /\ BridgeIdle /\ DecoderInitIdle
    /\ AuthIdle /\ AoaIdle /\ GuiIdle /\ RestartIdle
    /\ CodecIdle
    /\ PipelineConstructed
    /\ connected = TRUE
    /\ key_loaded = FALSE
    /\ audio_callback = FALSE
    /\ codec_ok = TRUE
    /\ sent = FloodPackets
    /\ noise \in NoiseSamples
    /\ inserted = << >>
    /\ stream = noise \o Serialize(sent)

SpecFlood == InitFlood /\ [][NextPump]_vars

(***************************************************************************)
(* Specification SpecPipeline: the controller, the three workers and the   *)
(* SDL window, on a few streams                                            *)
(***************************************************************************)
\* << noise, sent >>
PipelineScenarios ==
    { << << >>, << << VIDEO, << 7 >> >>, << VIDEO, << 8 >> >> >> >>,
      << << >>, << << AUTH_FAIL, << >> >>, << AUDIO, << 7 >> >> >> >>,
      << << >>, << << CONFIG, << VIDEO_SPS >> >>,
                   << CONFIG, << VIDEO_PPS >> >>,
                   << VIDEO, << 7 >> >> >> >>,
      << << 170, 170, 0, 0, 0, 5 >>, << << VIDEO, << 7 >> >> >> >>,
      << << >>, << << VIDEO, << 8 >> >>,
                   << CONFIG, << VIDEO_SPS, 5 >> >>,
                   << CONFIG, << VIDEO_PPS, 6 >> >>,
                   << VIDEO, << 7 >> >> >> >> }

InitPipeline ==
    /\ BridgeIdle /\ DecoderInitIdle
    /\ AuthIdle /\ AoaIdle /\ GuiIdle /\ RestartIdle
    /\ CodecIdle
    /\ PipelineConstructed
    /\ connected = TRUE
    /\ key_loaded = TRUE
    /\ audio_callback = FALSE
    /\ codec_ok = TRUE
    /\ \E sc \in PipelineScenarios :
          /\ noise = sc[1]
          /\ sent = sc[2]
          /\ inserted = << >>
          /\ stream = sc[1] \o Serialize(sc[2])

NextPipeline ==
    \/ StartOk
    \/ StartSdlFailed
    \/ StartAgain
    \/ Stop
    \/ UsbPump
    \/ Decoder
    \/ Render
    \/ SdlClose

SpecPipeline == InitPipeline /\ [][NextPipeline]_vars

\* The same, with the scheduler giving every live thread its next step.
\* Each blocking call of a worker has a timeout (read 50 ms, Queue.get
\* 100 ms, DroppingQueue.get 16 ms), so a live worker always has a step.
SpecPipelineFair ==
    /\ InitPipeline
    /\ [][NextPipeline]_vars
    /\ WF_vars(UsbPump)
    /\ WF_vars(Decoder)
    /\ WF_vars(Render)

(***************************************************************************)
(* Claims about the protocol codec                                         *)
(***************************************************************************)
\* The packet-type codes the protocol recognizes
RecognizedCodes == {1, 2, 3, 4, 16, 17, 18, 19}

\* The big-endian u32 in bytes 1..4 of data is at most 65536
LengthFieldAtMost64K(data) ==
    \/ data[2] = 0 /\ data[3] = 0
    \/ data[2] = 0 /\ data[3] = 1 /\ data[4] = 0 /\ data[5] = 0

\* C1: parse_header(data) returns a header if and only if data has at
\* least 5 bytes, byte 0 is a recognized type code and the length field is
\* at most 65536; in every other case it returns None, it never raises.
C1_ParseHeaderTotal ==
    hdrResult # Unparsed =>
        IF /\ Len(hdrData) >= 5
           /\ hdrData[1] \in RecognizedCodes
           /\ LengthFieldAtMost64K(hdrData)
        THEN hdrResult.kind = "PacketHeader"
        ELSE hdrResult = NoneValue

\* Lengths below 2^31 that the bytes of LenSamples write
RoundTripLengths ==
    {0, 1, 255, 256, 511, 65535, 65536, 65537, 65791, 16777216, 16842752}

\* C11: for every recognized type t and every length l <= 65536,
\* parse_header(create_header(t, l)) is the header (t, l); for every
\* larger l (the lengths of 2^31 and more are those whose first length
\* byte is 128 or more) the result is None.
C11_HeaderRoundTrip ==
    hdrResult # Unparsed =>
        /\ \A t \in PacketType, l \in RoundTripLengths :
              hdrData = create_header(t, l) =>
                  hdrResult = (IF l <= 65536
                               THEN PacketHeader(t, l)
                               ELSE NoneValue)
        /\ ( /\ Len(hdrData) = 5
             /\ hdrData[1] \in PacketType
             /\ hdrData[2] >= 128 ) => hdrResult = NoneValue

\* C11 witness: the largest payload length allowed went through
\* create_header and parse_header
C11_Witness ==
    /\ hdrData = create_header(AUTH_FAIL, 65536)
    /\ hdrResult = PacketHeader(AUTH_FAIL, 65536)

(***************************************************************************)
(* Claims about the USB pump                                               *)
(***************************************************************************)
\* C2: when the first 5 bytes of the reassembly buffer carry an unknown
\* type code, the pump's next step removes exactly one byte from the front
\* of the buffer, routes nothing and stays in its parsing loop.
C2_UnknownTypeResync ==
    [][ ( /\ usbPc = "demux"
          /\ Len(buffer) >= 5
          /\ buffer[1] \notin RecognizedCodes
          /\ << usbPc, buffer >>' # << usbPc, buffer >> )
        => ( /\ usbPc' = "demux"
             /\ buffer' = Tail(buffer)
             /\ resyncs' = resyncs + 1
             /\ routed' = routed ) ]_vars

\* C12: when the first 5 bytes of the reassembly buffer have a recognized
\* type and a length field above 65536, the pump's next step routes
\* nothing, removes exactly the first byte of the buffer and goes on to
\* the next parse attempt.
C12_OversizeLengthResync ==
    [][ ( /\ usbPc = "demux"
          /\ Len(buffer) >= 5
          /\ buffer[1] \in RecognizedCodes
          /\ ~LengthFieldAtMost64K(buffer)
          /\ << usbPc, buffer, routed, resyncs >>'
                # << usbPc, buffer, routed, resyncs >> )
        => ( /\ usbPc' = "demux"
             /\ buffer' = Tail(buffer)
             /\ resyncs' = resyncs + 1
             /\ routed' = routed
             /\ video_queue' = video_queue
             /\ audio_queue' = audio_queue ) ]_vars

\* C12 witness: the pump has stepped over the first byte of a Video header
\* that announced 2^32 - 1 bytes
C12_Witness ==
    /\ noise = << VIDEO, 255, 255, 255, 255 >>
    /\ usbPc = "demux"
    /\ resyncs = 1
    /\ routed = << >>
    /\ Len(buffer) >= 5
    /\ TakeFirst(buffer, 4) = << 255, 255, 255, 255 >>

\* The pump is outside its inner loop, having left it by the loop
\* condition or by the break
InnerLoopLeft == usbPc \in {"loop", "read", "exit", "done"}

\* The buffer starts with a valid header whose packet is not all there
PendingIncomplete(buf) ==
    LET header == parse_header(TakeFirst(buf, HEADER_TOTAL_SIZE))
    IN  /\ header.kind = "PacketHeader"
        /\ Len(buf) < HEADER_TOTAL_SIZE + header.length

\* C13: whenever the pump has left its inner loop the buffer holds fewer
\* than 5 bytes or begins with a valid header whose packet is not yet
\* complete; and every step that shortens the buffer takes off either one
\* byte (a resync advance, nothing routed) or exactly the bytes of the one
\* packet it routes.
C13_BufferInvariant ==
    /\ [](InnerLoopLeft =>
            (Len(buffer) < HEADER_TOTAL_SIZE \/ PendingIncomplete(buffer)))
    /\ [][ Len(buffer') < Len(buffer) =>
             \/ /\ buffer' = Tail(buffer)
                /\ resyncs' = resyncs + 1
                /\ routed' = routed
             \/ /\ Len(routed') = Len(routed) + 1
                /\ resyncs' = resyncs
                /\ buffer =
                      SerializePacket(routed'[Len(routed')]) \o buffer' ]_vars

\* C13 witness: the inner loop has routed a packet and left with the
\* header and part of the payload of the next one in the buffer
C13_Witness ==
    /\ usbPc = "loop"
    /\ Len(routed) = 1
    /\ Len(buffer) > HEADER_TOTAL_SIZE
    /\ PendingIncomplete(buffer)

\* Sum of 5 + length over the packets routed
RECURSIVE RoutedBytes(_)
RoutedBytes(pkts) ==
    IF pkts = << >>
    THEN 0
    ELSE HEADER_TOTAL_SIZE + Len(Head(pkts)[2]) + RoutedBytes(Tail(pkts))

\* Bytes the pump has taken off its buffer: those read, less those left
RemovedBytes ==
    (Len(noise \o Serialize(sent)) - Len(stream)) - Len(buffer)

\* C14: the bytes removed from the buffer are the 5 + length bytes of each
\* routed packet and one byte for each resync advance, and whenever the
\* pump is not in the middle of its inner loop the bytes left in the
\* buffer number fewer than 5 + the length that the pending header
\* announces.
C14_ConsumedBytes ==
    /\ RemovedBytes = RoutedBytes(routed) + resyncs
    /\ (usbPc # "demux" /\ Len(buffer) >= HEADER_TOTAL_SIZE) =>
           Len(buffer) <
               HEADER_TOTAL_SIZE + unpack_u32(SubSeq(buffer, 2, 5))

\* Offset of the first byte of packet i in the serialization of pkts
PacketStart(pkts, i) == Len(Serialize(SubSeq(pkts, 1, i - 1)))

\* The packets of the original stream that the inserted byte touches:
\* those it lands in, and those it lands next to
OverlapCorruption ==
    { i \in 1..Len(sent) :
        /\ PacketStart(sent, i) <= inserted[1]
        /\ inserted[1] <= PacketStart(sent, i + 1) }

\* The packets of the original stream that were routed
OriginalsRouted ==
    { i \in 1..Len(sent) : \E j \in 1..Len(routed) : routed[j] = sent[i] }

\* The pump will route nothing more: it has read and processed every byte
\* of the stream, or its thread has ended by an exception
PumpAtEnd ==
    \/ usbPc = "crashed"
    \/ stream = << >> /\ usbPc = "loop"

\* C15: with one extra byte in a well-formed stream, once the pump has
\* come to the end of what it will ever route (all bytes read and
\* processed, or the pump thread gone), it has routed at least |P| - k of
\* the original packets, k being the number of packets that overlap the
\* inserted byte.
C15_BoundedResync ==
    (inserted # << >> /\ PumpAtEnd)
    => Cardinality(OriginalsRouted)
           >= Len(sent) - Cardinality(OverlapCorruption)

\* The packets of the original stream that end before the inserted byte
BeforeCorruption ==
    { i \in 1..Len(sent) : PacketStart(sent, i + 1) <= inserted[1] }

\* C15 as amended: with one extra byte in a well-formed stream, the
\* original packets that end before the inserted byte are routed first,
\* in order and unchanged, and all of them have been routed once the pump
\* has read and processed every byte or has ended by an exception.
C15_PacketsBeforeInsertRouted ==
    inserted # << >> =>
        /\ \A i \in BeforeCorruption :
              i <= Len(routed) => routed[i] = sent[i]
        /\ PumpAtEnd => Len(routed) >= Cardinality(BeforeCorruption)

\* C15 witness: the byte went into the second packet's header; the first
\* packet was routed, the second and third were not
C15_Witness ==
    /\ inserted # << >>
    /\ Cardinality(BeforeCorruption) = 1
    /\ PumpAtEnd
    /\ Len(routed) >= 1
    /\ routed[1] = sent[1]
    /\ OriginalsRouted = {1}

\* C16: a step that routes a Video packet appends the payload when the
\* video ingress queue holds fewer than 30 payloads; when it holds 30 the
\* queue stays as it is and the drop counter goes up by one; the queue
\* never holds more than 30.
C16_VideoDropCounted ==
    [][ ( /\ Len(routed') = Len(routed) + 1
          /\ routed'[Len(routed')][1] = VIDEO )
        => /\ Len(video_queue) < 30 =>
                video_queue' =
                    Append(video_queue, routed'[Len(routed')][2])
           /\ Len(video_queue) >= 30 =>
                /\ video_queue' = video_queue
                /\ fq_dropped_frames' = fq_dropped_frames + 1
           /\ Len(video_queue') <= 30 ]_vars

\* s is the beginning of t
IsPrefix(s, t) == Len(s) <= Len(t) /\ s = SubSeq(t, 1, Len(s))

\* C3: for a well-formed packet sequence and every way of cutting its
\* serialization into read chunks, the pump routes the packets of the
\* sequence in order with their types and payloads (at every moment what
\* it has routed is a beginning of the sequence) and, once it has read and
\* processed the last chunk, it has routed exactly the sequence and its
\* buffer is empty.
C3_RoundTrip ==
    noise = << >> =>
        /\ IsPrefix(routed, sent)
        /\ resyncs = 0
        /\ usbPc # "crashed"
        /\ (stream = << >> /\ usbPc # "demux") =>
               (routed = sent /\ buffer = << >>)

\* C3 witness: two packets, one with a payload, went through the pump
C3_Witness ==
    /\ noise = << >>
    /\ Len(sent) = 2
    /\ sent[1] = << VIDEO, << AUDIO, 0, 0, 0, 0 >> >>
    /\ sent[2] = << AUDIO, << 1, 2, 3 >> >>
    /\ stream = << >>
    /\ usbPc = "loop"
    /\ routed = sent
    /\ buffer = << >>

\* header(AuthResponse, 64), byte by byte
AuthResponseHeader == << 17, 0, 0, 0, 64 >>

\* The responses owed for the challenges among the routed packets
RECURSIVE ResponsesOwed(_)
ResponsesOwed(pkts) ==
    IF pkts = << >>
    THEN << >>
    ELSE LET pkt == Head(pkts)
         IN  (IF pkt[1] = 16 /\ Len(pkt[2]) = 32
              THEN << AuthResponseHeader \o Ed25519Sign(pkt[2]) >>
              ELSE << >>) \o ResponsesOwed(Tail(pkts))

\* C4: with a key loaded, in every state (so also in the state in which
\* the challenge has just been routed, before anything that follows it is
\* routed) the transport has been handed header(AuthResponse, 64) and the
\* 64-byte signature for every 32-byte AuthChallenge routed so far, in
\* order, and nothing else.
C4_AuthResponseBeforeNext ==
    key_loaded => writes = ResponsesOwed(routed)

\* C4 witness: a challenge was routed, then the packet behind it
C4_Witness ==
    /\ key_loaded
    /\ Len(routed) = 2
    /\ routed[1] = << AUTH_CHALLENGE, ZeroChallenge >>
    /\ routed[2][1] = AUDIO
    /\ Len(writes) = 1
    /\ Len(writes[1]) = 69

(***************************************************************************)
(* Claims about the dropping queue                                         *)
(***************************************************************************)
\* C5: with capacity 1, a get returns the most recently put value when
\* that value has not been taken (or cleared) yet, nothing otherwise, and
\* the values returned only get newer: an older value is never returned
\* after a newer one.
C5_NewestWins ==
    dq_maxsize = 1 =>
        /\ \A i \in 1..Len(dq_got) :
              dq_got[i].value =
                  (IF dq_got[i].fresh THEN dq_got[i].latest ELSE 0)
        /\ \A i, j \in 1..Len(dq_got) :
              (i < j /\ dq_got[i].value # 0 /\ dq_got[j].value # 0)
                  => dq_got[i].value < dq_got[j].value

\* C5 witness: put(A); put(B); put(C); get() returned C
C5_Witness ==
    /\ dq_maxsize = 1
    /\ dq_flags = << FALSE, TRUE, TRUE >>
    /\ Len(dq_got) = 1
    /\ dq_got[1].value = 3

(***************************************************************************)
(* Claims about the pipeline's workers                                     *)
(***************************************************************************)
AuthFailRouted == \E i \in 1..Len(routed) : routed[i][1] = 19

WorkersEnded == ~Alive(usbPc) /\ ~Alive(decPc) /\ ~Alive(renPc)

\* C6: once the pump has routed an AuthFail packet the running flag is
\* false and the USB pump, the decoder feeder and the render poll worker
\* all come to an end, with or without a stop() from outside.
C6_AuthFailStops ==
    /\ [](AuthFailRouted => ~running)
    /\ AuthFailRouted ~> WorkersEnded

\* C6 witness: AuthFail was routed, stop() was never called, and the three
\* workers have ended
C6_Witness ==
    /\ AuthFailRouted
    /\ ctlPc = "started"
    /\ usbPc = "done"
    /\ decPc = "done"
    /\ renPc = "done"

\* C7: when stop() has returned, is_running is false and stop() has joined
\* each of the three workers: none of them is still alive without stop()
\* having waited for it.
C7_StopJoinsWorkers ==
    ctlPc = "stopped" =>
        /\ ~running
        /\ Alive(usbPc) => "usb" \in joined
        /\ Alive(decPc) => "dec" \in joined
        /\ Alive(renPc) => "ren" \in joined

\* C8: once stop() has returned, the video ingress queue, the audio
\* ingress queue and the decoded-frame queue are empty.
C8_StopLeavesQueuesEmpty ==
    ctlPc = "stopped" =>
        /\ video_queue = << >>
        /\ audio_queue = << >>
        /\ frame_queue = << >>

\* C9: no worker ends by an exception while the pipeline still reports
\* is_running = true.
C9_NoWorkerDiesRunning ==
    (usbPc = "crashed" \/ decPc = "crashed" \/ renPc = "crashed")
        => ~running

\* C10: when the renderer's is_running signal has gone false while the
\* pipeline is streaming, the render poll worker ends, running becomes
\* false, and the USB pump and the decoder feeder end.
C10_WindowCloseStops ==
    (ctlPc = "started" /\ sdl_window = "window" /\ ~sdl_running)
        ~> (~running /\ WorkersEnded)

\* s can be had from t by leaving elements out
RECURSIVE IsSubseq(_, _)
IsSubseq(s, t) ==
    IF s = << >>
    THEN TRUE
    ELSE IF t = << >>
         THEN FALSE
         ELSE IF Head(s) = Head(t)
              THEN IsSubseq(Tail(s), Tail(t))
              ELSE IsSubseq(s, Tail(t))

\* The payloads of the Video packets among pkts, in order
RECURSIVE VideoPayloads(_)
VideoPayloads(pkts) ==
    IF pkts = << >>
    THEN << >>
    ELSE (IF Head(pkts)[1] = VIDEO THEN << Head(pkts)[2] >> ELSE << >>)
             \o VideoPayloads(Tail(pkts))

\* The payloads the decoder thread took for decode(), in order
DecodedPayloads == [i \in 1..Len(decoded) |-> decoded[i].payload]

\* C17: the payloads handed to decode() are, in the same order and each at
\* most once, payloads of the Video packets the pump routed: what the
\* decoder gets is what was routed with some payloads left out.
C17_VideoOrderKept ==
    IsSubseq(DecodedPayloads, VideoPayloads(routed))

\* C17 witness: two Video packets were routed and both were decoded
C17_Witness ==
    /\ VideoPayloads(routed) = << << 7 >>, << 8 >> >>
    /\ DecodedPayloads = << << 7 >>, << 8 >> >>

\* routed[j] is a Config packet of the given subtype
IsConfig(j, subtype) ==
    /\ routed[j][1] = CONFIG
    /\ Len(routed[j][2]) >= 1
    /\ routed[j][2][1] = subtype

\* What set_sps / set_pps stores for the Config packet routed[j]
ConfigApplied(j) == EnsureStartCode(Tail(routed[j][2]))

\* C18: when decode() is invoked on the payload of a Video packet, every
\* Config(VideoSPS) and Config(VideoPPS) packet routed before that Video
\* packet has been applied: the decoder's SPS (PPS) at that moment is the
\* one of that Config packet or of a later one.
C18_ConfigBeforeVideo ==
    \A n \in 1..Len(decoded) : \A i \in 1..Len(routed) :
        routed[i] = << VIDEO, decoded[n].payload >> =>
            \A j \in 1..(i - 1) :
                /\ IsConfig(j, VIDEO_SPS) =>
                      \E k \in j..Len(routed) :
                          /\ IsConfig(k, VIDEO_SPS)
                          /\ decoded[n].sps = ConfigApplied(k)
                /\ IsConfig(j, VIDEO_PPS) =>
                      \E k \in j..Len(routed) :
                          /\ IsConfig(k, VIDEO_PPS)
                          /\ decoded[n].pps = ConfigApplied(k)

\* C18 witness: a Video payload routed before the configuration was
\* decoded without it, the one routed behind it was decoded with it
C18_Witness ==
    /\ Len(decoded) = 2
    /\ decoded[1] = [payload |-> << 8 >>, sps |-> << >>, pps |-> << >>]
    /\ decoded[2] = [payload |-> << 7 >>,
                     sps |-> << 0, 0, 0, 1, 5 >>,
                     pps |-> << 0, 0, 0, 1, 6 >>]

\* C19: once AoaHost.read has returned None the pump reads no more (it is
\* on its way out or gone), the running flag becomes false, and the
\* decoder feeder and the render poll worker come to an end as well.
C19_FatalReadStops ==
    /\ [](last_read = "fatal" => usbPc \in {"exit", "done"})
    /\ (last_read = "fatal") ~> (~running /\ WorkersEnded)

\* C19 witness: the read failed with bytes still to come, nobody called
\* stop() or closed the window, and the three workers have ended
C19_Witness ==
    /\ last_read = "fatal"
    /\ stream # << >>
    /\ ctlPc = "started"
    /\ sdl_running
    /\ ~running
    /\ usbPc = "done"
    /\ decPc = "done"
    /\ renPc = "done"

\* C20: the step in which a read times out takes the pump back to its
\* loop condition and leaves the running flag, the reassembly buffer, the
\* queues and the undelivered bytes as they are; and a pump that comes to
\* its loop condition after a timeout, with the flag still true, issues
\* the next read.
C20_TimeoutHarmless ==
    [][ /\ ( /\ usbPc = "read"
             /\ usbPc' # "read"
             /\ last_read' = "timeout" )
           => ( /\ usbPc' = "loop"
                /\ UNCHANGED << running, buffer, video_queue, audio_queue,
                                frame_queue, stream, routed >> )
        /\ ( /\ usbPc = "loop"
             /\ last_read = "timeout"
             /\ running
             /\ connected
             /\ usbPc' # "loop" )
           => usbPc' = "read" ]_vars

\* C20 witness: after a timeout with half a packet in the buffer the
\* pump is in its next read and the pipeline is still running
C20_Witness ==
    /\ last_read = "timeout"
    /\ usbPc = "read"
    /\ running
    /\ buffer # << >>
    /\ ctlPc = "started"

(***************************************************************************)
(* C21: when the pump routes an AuthChallenge whose payload is not 32      *)
(* bytes long, or with no key loaded, that step hands nothing to           *)
(* AoaHost.write, leaves the running flag as it was and stays in the       *)
(* inner loop with the rest of the buffer, where the next packet is taken. *)
(***************************************************************************)
\* The step routes one packet, an AuthChallenge that cannot be signed
RoutesUnsignable ==
    /\ Len(routed') = Len(routed) + 1
    /\ LET p == routed'[Len(routed')]
       IN  /\ p[1] = AUTH_CHALLENGE
           /\ sign_challenge(key_loaded, p[2]) = NoneValue

C21_BadChallengeHarmless ==
    [][RoutesUnsignable =>
          /\ writes' = writes
          /\ running' = running
          /\ usbPc' = "demux"
          /\ buffer' = DropFirst(buffer,
                           HEADER_TOTAL_SIZE + Len(routed'[Len(routed')][2]))
      ]_vars

\* No key: a 32-byte challenge was routed, nothing was written, the pump
\* is still running and has routed the packet behind it
C21_Witness ==
    /\ ~key_loaded
    /\ running
    /\ Len(routed) = 2
    /\ routed[1] = << AUTH_CHALLENGE, ZeroChallenge >>
    /\ routed[2][1] = VIDEO
    /\ writes = << >>

(***************************************************************************)
(* Specification SpecAuth: one Authenticator; keys are loaded from PEM     *)
(* texts that parse or do not, and challenges of several lengths are       *)
(* handed to sign_challenge                                                *)
(***************************************************************************)
MaxAuthCalls == 3

\* What _parse_private_key_pem records when it rejects a PEM text
PemErrors ==
    { "Invalid PEM format",
      "Failed to decode base64",
      "Invalid Ed25519 private key length" }

\* Challenges of 0, 31, 32 and 33 zero bytes, and one 32-byte challenge
\* with content
ChallengeSamples ==
    { [i \in 1..n |-> 0] : n \in {0, CHALLENGE_SIZE - 1, CHALLENGE_SIZE,
                                  CHALLENGE_SIZE + 1} }
    \cup { [i \in 1..CHALLENGE_SIZE |-> i] }

AuthCall(op, challenge, loaded_before, result) ==
    [op |-> op, challenge |-> challenge, loaded_before |-> loaded_before,
     loaded_after |-> auth_key_loaded', error |-> auth_last_error',
     result |-> result]

\* load_private_key_from_memory, the PEM parses (auth.py 41-52)
LoadKeyOk ==
    /\ Len(auth_log) < MaxAuthCalls
    /\ auth_signing_key' = "key"
    /\ auth_key_loaded' = TRUE
    /\ auth_last_error' = auth_last_error
    /\ auth_log' = Append(auth_log,
                          AuthCall("load", << >>, auth_key_loaded,
                                   [kind |-> "bool", value |-> TRUE]))
    /\ UNCHANGED << hdrData, hdrResult, dq_maxsize, dq_items, dq_waiting,
                    dq_puts, dq_fresh, dq_flags, dq_got, fqVars, aoaVars,
                    guiVars, bridgeVars, initVars, restartVars, envVars, pipeVars >>

\* load_private_key_from_memory, the PEM is rejected (auth.py 44-46, 63-84)
LoadKeyFailed ==
    /\ Len(auth_log) < MaxAuthCalls
    /\ \E e \in PemErrors : auth_last_error' = e
    /\ UNCHANGED << auth_signing_key, auth_key_loaded >>
    /\ auth_log' = Append(auth_log,
                          AuthCall("load", << >>, auth_key_loaded,
                                   [kind |-> "bool", value |-> FALSE]))
    /\ UNCHANGED << hdrData, hdrResult, dq_maxsize, dq_items, dq_waiting,
                    dq_puts, dq_fresh, dq_flags, dq_got, fqVars, aoaVars,
                    guiVars, bridgeVars, initVars, restartVars, envVars, pipeVars >>

\* sign_challenge(challenge) (auth.py 91-109)
SignChallenge ==
    /\ Len(auth_log) < MaxAuthCalls
    /\ UNCHANGED << auth_signing_key, auth_key_loaded >>
    /\ \E challenge \in ChallengeSamples :
          LET loaded == auth_key_loaded /\ auth_signing_key # "None"
          IN  /\ auth_last_error' =
                    sign_challenge_error(loaded, challenge, auth_last_error)
              /\ auth_log' = Append(auth_log,
                    AuthCall("sign", challenge, auth_key_loaded,
                             sign_challenge(loaded, challenge)))
    /\ UNCHANGED << hdrData, hdrResult, dq_maxsize, dq_items, dq_waiting,
                    dq_puts, dq_fresh, dq_flags, dq_got, fqVars, aoaVars,
                    guiVars, bridgeVars, initVars, restartVars, envVars, pipeVars >>

InitAuth ==
    /\ CodecIdle
    /\ PipelineAbsent
    /\ BridgeIdle /\ DecoderInitIdle
    /\ AuthIdle /\ AoaIdle /\ GuiIdle /\ RestartIdle

NextAuth ==
    \/ LoadKeyOk
    \/ LoadKeyFailed
    \/ SignChallenge

SpecAuth == InitAuth /\ [][NextAuth]_vars

(***************************************************************************)
(* C22: sign_challenge returns a 64-byte signature exactly when a key was  *)
(* loaded and the challenge is 32 bytes long; every other call returns     *)
(* None and records an error message; no call changes whether a key is     *)
(* loaded; an Authenticator on which no load has succeeded has no key.     *)
(***************************************************************************)
SignErrors == { "Private key not loaded", "Invalid challenge size" }

LoadedOnce ==
    \E i \in 1..Len(auth_log) :
        auth_log[i].op = "load" /\ auth_log[i].result.value

C22_SignContract ==
    /\ auth_key_loaded <=> LoadedOnce
    /\ \A i \in 1..Len(auth_log) :
          LET call == auth_log[i]
          IN  call.op = "sign" =>
                /\ (call.result.kind = "bytes") <=>
                      (call.loaded_before
                          /\ Len(call.challenge) = CHALLENGE_SIZE)
                /\ call.result.kind = "bytes" =>
                      Len(call.result.value) = SIGNATURE_SIZE
                /\ call.result.kind # "bytes" =>
                      /\ call.result = NoneValue
                      /\ call.error \in SignErrors
                /\ call.loaded_after = call.loaded_before

\* A key was loaded; a 32-byte challenge was signed, a 33-byte one and one
\* handed in before the load were refused
C22_Witness ==
    /\ Len(auth_log) = 3
    /\ auth_log[1].op = "sign" /\ Len(auth_log[1].challenge) = CHALLENGE_SIZE
    /\ auth_log[1].result = NoneValue
    /\ auth_log[2].op = "load" /\ auth_log[2].result.value
    /\ auth_log[3].op = "sign" /\ auth_log[3].result.kind = "bytes"

(***************************************************************************)
(* C23: a pipeline whose Authenticator has no key loaded does not start:   *)
(* no worker thread is launched and the running flag is never set.         *)
(***************************************************************************)
C23_NoKeyNoStart ==
    ~key_loaded =>
        /\ ~running
        /\ usbPc = "none"
        /\ decPc = "none"
        /\ renPc = "none"

(***************************************************************************)
(* Specification SpecRestart: the pipeline of SpecPipeline with a          *)
(* controller that also calls stop() again on a stopped pipeline and       *)
(* start() again on a pipeline that is no longer running.                  *)
(* start() is called again only once the decoder and render threads of     *)
(* the earlier run have ended; the USB pump of the earlier run may still   *)
(* be alive (stop() gave up its join after one second).  Of such a pump    *)
(* only its use of the transport is followed: its buffer and the packets   *)
(* it routes are not.                                                      *)
(***************************************************************************)
\* 136-139: stop() called on a pipeline that stop() has left
StopAgain ==
    /\ ctlPc = "stopped"
    /\ stops < MaxStops
    /\ running' = FALSE
    /\ dec_running' = FALSE
    /\ ctlPc' = "stop_sdl"
    /\ UNCHANGED << codecVars, envVars, last_read, decoded,
                    stream, video_queue, audio_queue,
                    frame_queue, sdl_window, sdl_running, dec_sps, dec_pps,
                    usbPc, buffer, decPc, h264_data, renPc, frame, routed,
                    writes, resyncs, audio_out, joined >>

\* 97-132: start() after stop() has returned, after a failed start() or
\* after the pump ended the stream: _running is False, so a new window and
\* three new threads are made; self._usb_thread now names the new pump
Restart ==
    /\ ctlPc \in {"stopped", "started", "failed"}
    /\ ~running
    /\ restarts < MaxRestarts
    /\ ~Alive(decPc) /\ ~Alive(renPc) /\ ~Alive(zombiePc)
    /\ running' = TRUE
    /\ sdl_window' = "window"
    /\ sdl_running' = TRUE
    /\ zombiePc' = IF Alive(usbPc) THEN usbPc ELSE zombiePc
    /\ usbPc' = "loop"
    /\ buffer' = << >>
    /\ decPc' = "loop"
    /\ h264_data' = << >>
    /\ renPc' = "loop"
    /\ frame' = << >>
    /\ last_read' = "none"
    /\ ctlPc' = "started"
    /\ restarts' = restarts + 1
    /\ UNCHANGED << aloneVars, stops, envVars, decoded, stream, video_queue,
                    audio_queue, frame_queue, dec_sps, dec_pps, dec_running,
                    routed, writes, resyncs, audio_out, joined >>

\* 168: the earlier pump tests the flag the new start() has set again
ZombieLoop ==
    /\ zombiePc = "loop"
    /\ zombiePc' = IF running /\ connected THEN "read" ELSE "exit"
    /\ UNCHANGED << aloneVars, restarts, stops, envVars, pipeVars >>

\* 170-178: its AoaHost.read takes n bytes off the wire (0: timeout), or
\* fails
ZombieRead ==
    /\ zombiePc = "read"
    /\ \/ \E n \in 0..Len(stream) :
             /\ stream' = DropFirst(stream, n)
             /\ zombiePc' = IF n = 0 THEN "loop" ELSE "demux"
       \/ /\ stream' = stream
          /\ zombiePc' = "exit"
    /\ UNCHANGED << aloneVars, restarts, stops, envVars, running,
                    video_queue, audio_queue, frame_queue, sdl_window,
                    sdl_running, dec_sps, dec_pps, dec_running, ctlPc,
                    usbPc, buffer, decPc, h264_data, renPc, frame, routed,
                    writes, resyncs, audio_out, joined, last_read,
                    decoded >>

\* 181-198: its inner loop (not followed)
ZombieDemux ==
    /\ zombiePc = "demux"
    /\ zombiePc' = "loop"
    /\ UNCHANGED << aloneVars, restarts, stops, envVars, pipeVars >>

\* 200: self._running = False
ZombieExit ==
    /\ zombiePc = "exit"
    /\ running' = FALSE
    /\ zombiePc' = "done"
    /\ UNCHANGED << aloneVars, restarts, stops, envVars, stream,
                    video_queue, audio_queue, frame_queue, sdl_window,
                    sdl_running, dec_sps, dec_pps, dec_running, ctlPc,
                    usbPc, buffer, decPc, h264_data, renPc, frame, routed,
                    writes, resyncs, audio_out, joined, last_read,
                    decoded >>

Zombie ==
    \/ ZombieLoop
    \/ ZombieRead
    \/ ZombieDemux
    \/ ZombieExit

\* The device sends one audio packet
RestartScenarios ==
    { << << AUDIO, << 7 >> >> >> }

InitRestart ==
    /\ BridgeIdle /\ DecoderInitIdle
    /\ AuthIdle /\ AoaIdle /\ GuiIdle /\ RestartIdle
    /\ CodecIdle
    /\ PipelineConstructed
    /\ connected = TRUE
    /\ key_loaded = TRUE
    /\ audio_callback = FALSE
    /\ codec_ok = TRUE
    /\ sent \in RestartScenarios
    /\ noise = << >>
    /\ inserted = << >>
    /\ stream = Serialize(sent)

\* Every action of the pipeline that such a stream can enable: no byte is
\* skipped and no header is rejected, and with no video packet the video
\* and frame queues stay empty
NextRestart ==
    \/ StartOk
    \/ StartSdlFailed
    \/ StartAgain
    \/ Stop
    \/ StopAgain
    \/ Restart
    \/ UsbLoop
    \/ UsbReadData
    \/ UsbReadTimeout
    \/ UsbReadFatal
    \/ UsbDemuxShort
    \/ UsbDemuxIncomplete
    \/ UsbDemuxPacket
    \/ UsbExit
    \/ DecLoop
    \/ DecGetEmpty
    \/ RenLoop
    \/ RenIsRunning
    \/ RenGet
    \/ RenWake
    \/ SdlClose
    \/ Zombie

SpecRestart == InitRestart /\ [][NextRestart]_vars

(***************************************************************************)
(* Specification SpecStop: the pipeline of SpecPipeline with a controller  *)
(* that calls stop() in every state, also on a pipeline it has stopped     *)
(***************************************************************************)
NextStop ==
    \/ NextPipeline
    \/ StopAgain

SpecStop == InitPipeline /\ [][NextStop]_vars

(***************************************************************************)
(* C24: at most one thread at a time is inside a call of AoaHost.read or   *)
(* AoaHost.write: no two USB pump threads of one pipeline are ever both    *)
(* at their read, whatever sequence of start() and stop() was called.      *)
(* (Writes are made by pump threads only, inside _handle_packet.)          *)
(***************************************************************************)
C24_TransportOwnedByOnePump ==
    ~(usbPc = "read" /\ zombiePc = "read")

(***************************************************************************)
(* C25: stop() raises in no state it is called in, can always take its     *)
(* next step, and when it has returned the running flag is false.          *)
(***************************************************************************)
InStop == ctlPc \in {"stop_sdl", "stop_queues", "join_usb", "join_dec"}

C25_StopAlwaysSafe ==
    /\ ctlPc # "raised"
    /\ InStop => ENABLED Stop
    /\ ctlPc = "stopped" => ~running

\* stop() has returned twice in a row on a pipeline that was started and
\* whose pump had ended the stream by itself
C25_Witness ==
    /\ ctlPc = "stopped"
    /\ stops = 2
    /\ restarts = 0
    /\ usbPc = "done"
    /\ ~running

(***************************************************************************)
(* AoaHost (aoa.py)                                                        *)
(* The USB bus is the environment: each look at it sees some set of        *)
(* devices, each transfer succeeds or raises USBError.  A device is        *)
(* << idVendor, idProduct >>.                                              *)
(***************************************************************************)
AOA_ACCESSORY_VID == 6353
AOA_ACCESSORY_PID == 11520
AOA_ACCESSORY_ADB_PID == 11521
AOA_GET_PROTOCOL == 51
AOA_SEND_STRING == 52
AOA_START_ACCESSORY == 53

\* 91: range(30)
ACCESSORY_POLLS == 30

\* 192-199: the wIndex of each identification string, in list order
StringIndices == << 0, 1, 2, 3, 4, 5 >>

\* A phone that is not in accessory mode
AndroidPhone == << 1256, 26720 >>

BusSamples ==
    SUBSET { << AOA_ACCESSORY_VID, AOA_ACCESSORY_PID >>,
             << AOA_ACCESSORY_VID, AOA_ACCESSORY_ADB_PID >>,
             AndroidPhone }

Device(d) == [kind |-> "device", idVendor |-> d[1], idProduct |-> d[2]]

\* 169-176
find_accessory_device(bus) ==
    IF << AOA_ACCESSORY_VID, AOA_ACCESSORY_PID >> \in bus
    THEN Device(<< AOA_ACCESSORY_VID, AOA_ACCESSORY_PID >>)
    ELSE IF << AOA_ACCESSORY_VID, AOA_ACCESSORY_ADB_PID >> \in bus
         THEN Device(<< AOA_ACCESSORY_VID, AOA_ACCESSORY_ADB_PID >>)
         ELSE NoneValue

\* An entry of usb_log.  op is "ctrl" (a control transfer on the Android
\* device: request and wIndex), "find" (_find_accessory_device: index is the
\* idProduct found, 0 for none) or "claim" (usb.util.claim_interface)
UsbOp(op, request, index, ok) ==
    [op |-> op, request |-> request, index |-> index, ok |-> ok]

FindOp(device) ==
    IF device.kind = "device"
    THEN UsbOp("find", 0, device.idProduct, TRUE)
    ELSE UsbOp("find", 0, 0, FALSE)

besideAoa == << hdrData, hdrResult, dq_maxsize, dq_items, dq_waiting,
               dq_puts, dq_fresh, dq_flags, dq_got, fqVars, authVars,
               guiVars, bridgeVars, initVars, restartVars, envVars, pipeVars >>

\* 62-67: connect_to_device is called on a host that is not connected and
\* looks for a device that is in accessory mode already
ConnectBegin ==
    /\ aoa_pc = "idle"
    /\ ~aoa_connected
    /\ \E bus \in BusSamples :
          LET device == find_accessory_device(bus)
          IN  /\ usb_log' = << FindOp(device) >>
              /\ IF device.kind = "device"
                 THEN /\ aoa_pc' = "claim"
                      /\ aoa_device' = "accessory"
                 ELSE /\ aoa_pc' = "find_android"
                      /\ aoa_device' = aoa_device
    /\ string_index' = 0
    /\ polls' = 0
    /\ aoa_result' = "none"
    /\ UNCHANGED << aoa_connected, aoa_endpoint_in, aoa_endpoint_out,
                    aoa_io, besideAoa >>

\* 67-70, 151-167: some device on the bus answers the protocol query, or
\* none does (the queries of this search are not logged)
FindAndroid ==
    /\ aoa_pc = "find_android"
    /\ \E bus \in BusSamples :
          IF AndroidPhone \in bus
          THEN /\ aoa_pc' = "get_version"
               /\ aoa_result' = aoa_result
          ELSE /\ aoa_pc' = "idle"
               /\ aoa_result' = "False"
    /\ UNCHANGED << aoa_device, aoa_connected, aoa_endpoint_in,
                    aoa_endpoint_out, string_index, usb_log, polls, aoa_io,
                    besideAoa >>

\* 73-77, 178-188: request 51; -1 stands for a transfer that failed
GetVersion ==
    /\ aoa_pc = "get_version"
    /\ \E version \in {-1, 0, 1, 2} :
          /\ usb_log' = Append(usb_log,
                 UsbOp("ctrl", AOA_GET_PROTOCOL, 0, version >= 0))
          /\ IF version < 1
             THEN /\ aoa_pc' = "idle"
                  /\ aoa_result' = "False"
             ELSE /\ aoa_pc' = "send_strings"
                  /\ aoa_result' = aoa_result
    /\ UNCHANGED << aoa_device, aoa_connected, aoa_endpoint_in,
                    aoa_endpoint_out, string_index, polls, aoa_io,
                    besideAoa >>

\* _send_accessory_strings going on to the next string after a USBError
after_send_string_ignore_error(ok, i) ==
    IF i + 1 < Len(StringIndices) THEN "send_strings" ELSE "start_accessory"

\* 201-214, 80-81: where the caller is after the transfer of strings[i]
after_send_string(ok, i) ==
    IF ~ok
    THEN "failed"
    ELSE IF i + 1 < Len(StringIndices)
         THEN "send_strings"
         ELSE "start_accessory"

\* 201-211: request 52 for the next string of the list
SendString ==
    /\ aoa_pc = "send_strings"
    /\ \E ok \in BOOLEAN :
          LET next == after_send_string(ok, string_index)
          IN  /\ usb_log' = Append(usb_log,
                     UsbOp("ctrl", AOA_SEND_STRING,
                           StringIndices[string_index + 1], ok))
              /\ string_index' = string_index + 1
              /\ IF next = "failed"
                 THEN /\ aoa_pc' = "idle"
                      /\ aoa_result' = "False"
                 ELSE /\ aoa_pc' = next
                      /\ aoa_result' = aoa_result
    /\ UNCHANGED << aoa_device, aoa_connected, aoa_endpoint_in,
                    aoa_endpoint_out, polls, aoa_io, besideAoa >>

\* 84-88, 216-228: request 53
StartAccessory ==
    /\ aoa_pc = "start_accessory"
    /\ \E ok \in BOOLEAN :
          /\ usb_log' = Append(usb_log,
                 UsbOp("ctrl", AOA_START_ACCESSORY, 0, ok))
          /\ IF ok
             THEN /\ aoa_pc' = "wait"
                  /\ aoa_result' = aoa_result
             ELSE /\ aoa_pc' = "idle"
                  /\ aoa_result' = "False"
    /\ UNCHANGED << aoa_device, aoa_connected, aoa_endpoint_in,
                    aoa_endpoint_out, string_index, polls, aoa_io,
                    besideAoa >>

\* the wait loop making one pass more than range(30)
polls_left_one_more(n) == n <= ACCESSORY_POLLS

\* 91: for _ in range(30)
polls_left(n) == n < ACCESSORY_POLLS

\* 91-101: one pass of the wait loop; a device found ends the loop and
\* becomes self._device
Poll ==
    /\ aoa_pc = "wait"
    /\ polls_left(polls)
    /\ polls' = polls + 1
    /\ \E bus \in BusSamples :
          LET device == find_accessory_device(bus)
          IN  /\ usb_log' = Append(usb_log, FindOp(device))
              /\ IF device.kind = "device"
                 THEN /\ aoa_pc' = "claim"
                      /\ aoa_device' = "accessory"
                 ELSE /\ aoa_pc' = "wait"
                      /\ aoa_device' = aoa_device
    /\ UNCHANGED << aoa_connected, aoa_endpoint_in, aoa_endpoint_out,
                    string_index, aoa_result, aoa_io, besideAoa >>

\* 97-99: the loop ran out
PollGiveUp ==
    /\ aoa_pc = "wait"
    /\ ~polls_left(polls)
    /\ aoa_pc' = "idle"
    /\ aoa_result' = "False"
    /\ UNCHANGED << aoa_device, aoa_connected, aoa_endpoint_in,
                    aoa_endpoint_out, string_index, usb_log, polls, aoa_io,
                    besideAoa >>

\* 104-105, 230-244
ClaimInterface ==
    /\ aoa_pc = "claim"
    /\ \E ok \in BOOLEAN :
          /\ usb_log' = Append(usb_log, UsbOp("claim", 0, 0, ok))
          /\ IF ok
             THEN /\ aoa_pc' = "endpoints"
                  /\ aoa_result' = aoa_result
             ELSE /\ aoa_pc' = "idle"
                  /\ aoa_result' = "False"
    /\ UNCHANGED << aoa_device, aoa_connected, aoa_endpoint_in,
                    aoa_endpoint_out, string_index, polls, aoa_io,
                    besideAoa >>

\* _find_bulk_endpoints content with one endpoint of the two
either_endpoint(ep_in, ep_out) == ep_in \/ ep_out

\* 266: not (not self._endpoint_in or not self._endpoint_out)
both_endpoints(ep_in, ep_out) == ep_in /\ ep_out

\* 107-112, 246-274: both endpoint fields are assigned, found or not
FindEndpoints ==
    /\ aoa_pc = "endpoints"
    /\ \E ep_in \in BOOLEAN, ep_out \in BOOLEAN :
          /\ aoa_endpoint_in' = ep_in
          /\ aoa_endpoint_out' = ep_out
          /\ IF both_endpoints(ep_in, ep_out)
             THEN /\ aoa_connected' = TRUE
                  /\ aoa_result' = "True"
             ELSE /\ aoa_connected' = aoa_connected
                  /\ aoa_result' = "False"
    /\ aoa_pc' = "idle"
    /\ UNCHANGED << aoa_device, string_index, usb_log, polls, aoa_io,
                    besideAoa >>

\* 114-123
Disconnect ==
    /\ aoa_pc = "idle"
    /\ aoa_connected' = FALSE
    /\ aoa_device' = "None"
    /\ UNCHANGED << aoa_pc, aoa_endpoint_in, aoa_endpoint_out, string_index,
                    usb_log, polls, aoa_result, aoa_io, besideAoa >>

\* What the bulk-OUT transfer did: it took n bytes, or raised USBError
Written(n) == [kind |-> "written", n |-> n]

USBError == [kind |-> "USBError"]

NotIssued == [kind |-> "not issued"]

\* write reporting success whenever the transfer came back
aoa_write_any_count(is_connected, endpoint_out, data, outcome) ==
    IF ~is_connected \/ ~endpoint_out
    THEN FALSE
    ELSE outcome.kind = "written"

\* 125-135: the value returned
aoa_write(is_connected, endpoint_out, data, outcome) ==
    IF ~is_connected \/ ~endpoint_out
    THEN FALSE
    ELSE IF outcome.kind = "written"
         THEN outcome.n = Len(data)
         ELSE FALSE

WriteSamples == { << >>, << 1 >>, << 1, 2 >> }

\* 125-135: AoaHost.write(data), from any thread
AoaWrite ==
    /\ \E data \in WriteSamples :
          \E outcome \in
                IF ~aoa_connected \/ ~aoa_endpoint_out
                THEN { NotIssued }
                ELSE { Written(n) : n \in 0..Len(data) } \cup { USBError } :
             aoa_io' = [op |-> "write",
                        is_connected |-> aoa_connected,
                        data |-> data,
                        outcome |-> outcome,
                        result |-> [kind |-> "bool",
                                    value |-> aoa_write(aoa_connected,
                                                 aoa_endpoint_out, data,
                                                 outcome)]]
    /\ UNCHANGED << aoa_pc, aoa_device, aoa_connected, aoa_endpoint_in,
                    aoa_endpoint_out, string_index, usb_log, polls,
                    aoa_result, besideAoa >>

\* What the bulk-IN transfer did
ReadOutcomes ==
    { [kind |-> "data", bytes |-> << 7 >>],
      [kind |-> "data", bytes |-> << 7, 8 >>],
      [kind |-> "USBTimeoutError"],
      USBError }

\* 137-149: the value returned
aoa_read(is_connected, endpoint_in, outcome) ==
    IF ~is_connected \/ ~endpoint_in
    THEN NoneValue
    ELSE IF outcome.kind = "data"
         THEN [kind |-> "bytes", value |-> outcome.bytes]
         ELSE IF outcome.kind = "USBTimeoutError"
              THEN [kind |-> "bytes", value |-> << >>]
              ELSE NoneValue

\* 137-149: AoaHost.read(max_length, timeout_ms), from any thread
AoaRead ==
    /\ \E outcome \in
             IF ~aoa_connected \/ ~aoa_endpoint_in
             THEN { NotIssued }
             ELSE ReadOutcomes :
          aoa_io' = [op |-> "read",
                     is_connected |-> aoa_connected,
                     data |-> << >>,
                     outcome |-> outcome,
                     result |-> aoa_read(aoa_connected, aoa_endpoint_in,
                                         outcome)]
    /\ UNCHANGED << aoa_pc, aoa_device, aoa_connected, aoa_endpoint_in,
                    aoa_endpoint_out, string_index, usb_log, polls,
                    aoa_result, besideAoa >>

(***************************************************************************)
(* Specification SpecAoa: one AoaHost; connect_to_device and disconnect    *)
(* are called in turn, write and read at any time, on every bus            *)
(***************************************************************************)
InitAoa ==
    /\ CodecIdle
    /\ PipelineAbsent
    /\ BridgeIdle /\ DecoderInitIdle
    /\ AuthIdle /\ AoaIdle /\ GuiIdle /\ RestartIdle

NextAoa ==
    \/ ConnectBegin
    \/ FindAndroid
    \/ GetVersion
    \/ SendString
    \/ StartAccessory
    \/ Poll
    \/ PollGiveUp
    \/ ClaimInterface
    \/ FindEndpoints
    \/ Disconnect
    \/ AoaWrite
    \/ AoaRead

SpecAoa == InitAoa /\ [][NextAoa]_vars

(***************************************************************************)
(* C26: in a connect_to_device call the request-52 transfers carry the     *)
(* indices 0, 1, 2, 3, 4, 5 in that order; request 53 is issued only       *)
(* after six of them succeeded; a failed string transfer is the last       *)
(* operation of the call, which returns False with the host not connected. *)
(***************************************************************************)
IsStringTransfer(t) == t.op = "ctrl" /\ t.request = AOA_SEND_STRING

IsStartAccessory(t) == t.op = "ctrl" /\ t.request = AOA_START_ACCESSORY

StringTransfers == SelectSeq(usb_log, IsStringTransfer)

C26_StringsThenStart ==
    /\ Len(StringTransfers) <= 6
    /\ \A i \in 1..Len(StringTransfers) : StringTransfers[i].index = i - 1
    /\ \A i \in 1..Len(usb_log) :
          /\ IsStartAccessory(usb_log[i]) =>
                /\ Len(SelectSeq(SubSeq(usb_log, 1, i - 1),
                                 IsStringTransfer)) = 6
                /\ \A j \in 1..(i - 1) :
                      IsStringTransfer(usb_log[j]) => usb_log[j].ok
          /\ (IsStringTransfer(usb_log[i]) /\ ~usb_log[i].ok) =>
                /\ i = Len(usb_log)
                /\ aoa_pc = "idle"
                /\ aoa_result = "False"
                /\ ~aoa_connected

\* All six strings were accepted and request 53 was issued
C26_Witness ==
    /\ Len(StringTransfers) = 6
    /\ \E i \in 1..Len(usb_log) : IsStartAccessory(usb_log[i])

(***************************************************************************)
(* C27: after request 53 the call looks for the accessory at most 30       *)
(* times; a look that finds it (idProduct 0x2D00 or 0x2D01) is followed    *)
(* at once by the claim of the interface; a call in which no look found    *)
(* it claims no interface and returns False with the host not connected.   *)
(***************************************************************************)
IsFind(t) == t.op = "find"

IsClaim(t) == t.op = "claim"

\* The looks made after request 53
WaitFinds ==
    IF \E i \in 1..Len(usb_log) : IsStartAccessory(usb_log[i])
    THEN LET i == CHOOSE i \in 1..Len(usb_log) :
                     IsStartAccessory(usb_log[i])
         IN  SelectSeq(SubSeq(usb_log, i + 1, Len(usb_log)), IsFind)
    ELSE << >>

C27_BoundedWait ==
    /\ Len(WaitFinds) <= ACCESSORY_POLLS
    /\ \A i \in 1..Len(usb_log) :
          /\ IsFind(usb_log[i]) =>
                usb_log[i].ok <=>
                    usb_log[i].index \in {AOA_ACCESSORY_PID,
                                          AOA_ACCESSORY_ADB_PID}
          /\ (IsFind(usb_log[i]) /\ usb_log[i].ok) =>
                IF i = Len(usb_log)
                THEN aoa_pc = "claim"
                ELSE IsClaim(usb_log[i + 1])
          /\ IsClaim(usb_log[i]) =>
                i > 1 /\ IsFind(usb_log[i - 1]) /\ usb_log[i - 1].ok
    /\ (Len(WaitFinds) = ACCESSORY_POLLS
           /\ ~WaitFinds[ACCESSORY_POLLS].ok
           /\ aoa_pc = "idle") =>
          /\ aoa_result = "False"
          /\ ~aoa_connected
          /\ \A i \in 1..Len(usb_log) : ~IsClaim(usb_log[i])

\* Thirty looks found nothing and the call has returned
C27_Witness ==
    /\ Len(WaitFinds) = ACCESSORY_POLLS
    /\ ~WaitFinds[ACCESSORY_POLLS].ok
    /\ aoa_pc = "idle"
    /\ aoa_result = "False"

(***************************************************************************)
(* C29: write returns True only when the host was connected and the        *)
(* transfer took all len(data) bytes; a partial write, a USBError and a    *)
(* call on a host that is not connected return False.  read on a host      *)
(* that is not connected returns None.                                     *)
(***************************************************************************)
C29_WriteReadOutcomes ==
    /\ aoa_io.op = "write" =>
          aoa_io.result.value <=>
              /\ aoa_io.is_connected
              /\ aoa_io.outcome.kind = "written"
              /\ aoa_io.outcome.n = Len(aoa_io.data)
    /\ (aoa_io.op = "read" /\ ~aoa_io.is_connected) =>
          aoa_io.result = NoneValue

\* A connected host wrote one byte of two and reported failure
C29_Witness ==
    /\ aoa_io.op = "write"
    /\ aoa_io.is_connected
    /\ aoa_io.outcome.kind = "written"
    /\ aoa_io.outcome.n = 1
    /\ Len(aoa_io.data) = 2
    /\ ~aoa_io.result.value

(***************************************************************************)
(* C28: put is enabled in every state (it never waits) and returns True    *)
(* exactly when the queue held maxsize items before the call, in which     *)
(* case the oldest item is removed; in every reachable state the queue     *)
(* holds at most maxsize items, and they are the latest puts in put        *)
(* order: consecutive values ending with the value put last, all newer     *)
(* than every value a get has returned.                                    *)
(***************************************************************************)
QueueHoldsLatest ==
    /\ Len(dq_items) <= dq_maxsize
    /\ \A i \in 1..(Len(dq_items) - 1) : dq_items[i + 1] = dq_items[i] + 1
    /\ Len(dq_items) > 0 => dq_items[Len(dq_items)] = dq_puts
    /\ \A i \in 1..Len(dq_items), j \in 1..Len(dq_got) :
          dq_got[j].value < dq_items[i]

PutReportsDrop ==
    dq_puts' = dq_puts + 1 =>
        LET was_full == Len(dq_items) = dq_maxsize
        IN  /\ dq_flags'[Len(dq_flags')] = was_full
            /\ dq_items' = Append(IF was_full THEN Tail(dq_items)
                                              ELSE dq_items,
                                  dq_puts')

C28_PutNeverBlocksKeepsLatest ==
    /\ [](QueueHoldsLatest /\ (dq_puts < MaxPuts => ENABLED DqPut))
    /\ [][PutReportsDrop]_vars

\* Capacity 2, three puts: the third reported a drop and the queue holds
\* the second and the third value
C28_Witness ==
    /\ dq_maxsize = 2
    /\ dq_items = << 2, 3 >>
    /\ dq_flags = << FALSE, FALSE, TRUE >>

(***************************************************************************)
(* MainWindow._receive_loop (main_window.py 186-218), run by the connect   *)
(* thread after _running = True.  Of _handle_packet (220-266) the call     *)
(* itself and its assignment to _running are followed.                     *)
(***************************************************************************)
besideGui == << hdrData, hdrResult, dq_maxsize, dq_items, dq_waiting,
               dq_puts, dq_fresh, dq_flags, dq_got, fqVars, authVars,
               aoaVars, bridgeVars, initVars, restartVars, envVars,
               pipeVars >>

\* 191: the loop condition
GuiLoop ==
    /\ gui_pc = "loop"
    /\ gui_pc' = IF gui_running /\ gui_connected THEN "read" ELSE "closed"
    /\ UNCHANGED << gui_running, gui_connected, gui_stream, gui_buffer,
                    gui_routed, besideGui >>

\* 193, 199: AoaHost.read returned n bytes; buffer.extend(data)
GuiReadData ==
    /\ gui_pc = "read"
    /\ gui_connected
    /\ \E n \in 1..Len(gui_stream) :
          /\ gui_buffer' = gui_buffer \o TakeFirst(gui_stream, n)
          /\ gui_stream' = DropFirst(gui_stream, n)
    /\ gui_pc' = "demux"
    /\ UNCHANGED << gui_running, gui_connected, gui_routed, besideGui >>

\* 196-197: the read timed out; continue
GuiReadTimeout ==
    /\ gui_pc = "read"
    /\ gui_connected
    /\ gui_pc' = "loop"
    /\ UNCHANGED << gui_running, gui_connected, gui_stream, gui_buffer,
                    gui_routed, besideGui >>

\* 194-195: the read returned None (USB error, or not connected); break
GuiReadFatal ==
    /\ gui_pc = "read"
    /\ gui_pc' = "closed"
    /\ UNCHANGED << gui_running, gui_connected, gui_stream, gui_buffer,
                    gui_routed, besideGui >>

\* 202: fewer than 5 bytes; back to the outer loop
GuiDemuxShort ==
    /\ gui_pc = "demux"
    /\ Len(gui_buffer) < HEADER_TOTAL_SIZE
    /\ gui_pc' = "loop"
    /\ UNCHANGED << gui_running, gui_connected, gui_stream, gui_buffer,
                    gui_routed, besideGui >>

\* 203: parse_header raised; nothing in the connect thread catches it
GuiDemuxRaise ==
    /\ gui_pc = "demux"
    /\ Len(gui_buffer) >= HEADER_TOTAL_SIZE
    /\ parse_header(TakeFirst(gui_buffer, HEADER_TOTAL_SIZE)).kind = "raise"
    /\ gui_pc' = "crashed"
    /\ UNCHANGED << gui_running, gui_connected, gui_stream, gui_buffer,
                    gui_routed, besideGui >>

\* 203-205: parse_header returned None; break, with the buffer as it is
GuiDemuxInvalid ==
    /\ gui_pc = "demux"
    /\ Len(gui_buffer) >= HEADER_TOTAL_SIZE
    /\ parse_header(TakeFirst(gui_buffer, HEADER_TOTAL_SIZE)).kind = "None"
    /\ gui_pc' = "loop"
    /\ UNCHANGED << gui_running, gui_connected, gui_stream, gui_buffer,
                    gui_routed, besideGui >>

\* 207-209: the payload is not all there yet; break
GuiDemuxIncomplete ==
    /\ gui_pc = "demux"
    /\ Len(gui_buffer) >= HEADER_TOTAL_SIZE
    /\ LET header == parse_header(TakeFirst(gui_buffer, HEADER_TOTAL_SIZE))
       IN  /\ header.kind = "PacketHeader"
           /\ Len(gui_buffer) < HEADER_TOTAL_SIZE + header.length
    /\ gui_pc' = "loop"
    /\ UNCHANGED << gui_running, gui_connected, gui_stream, gui_buffer,
                    gui_routed, besideGui >>

\* 212-216, 264-266: one packet leaves the buffer and is handled; AuthFail
\* clears _running
GuiDemuxPacket ==
    /\ gui_pc = "demux"
    /\ Len(gui_buffer) >= HEADER_TOTAL_SIZE
    /\ LET header == parse_header(TakeFirst(gui_buffer, HEADER_TOTAL_SIZE))
       IN  /\ header.kind = "PacketHeader"
           /\ LET total_size == HEADER_TOTAL_SIZE + header.length
              IN  /\ Len(gui_buffer) >= total_size
                  /\ gui_buffer' = consume_packet(gui_buffer, total_size)
                  /\ gui_routed' = Append(gui_routed,
                        << header.type,
                           extract_payload(gui_buffer, total_size) >>)
                  /\ gui_running' =
                        IF header.type = AUTH_FAIL THEN FALSE
                                                   ELSE gui_running
    /\ UNCHANGED << gui_pc, gui_connected, gui_stream, besideGui >>

\* 174-177: the disconnect button
GuiDisconnect ==
    /\ gui_running \/ gui_connected
    /\ gui_running' = FALSE
    /\ gui_connected' = FALSE
    /\ UNCHANGED << gui_pc, gui_stream, gui_buffer, gui_routed, besideGui >>

(***************************************************************************)
(* Specification SpecGui: the GUI's receive loop on every stream of the    *)
(* samples, cut into read chunks in every way                              *)
(***************************************************************************)
InitGui ==
    /\ CodecIdle
    /\ PipelineConstructed
    /\ BridgeIdle /\ DecoderInitIdle
    /\ AuthIdle /\ AoaIdle /\ RestartIdle
    /\ connected = FALSE
    /\ key_loaded = FALSE
    /\ audio_callback = FALSE
    /\ codec_ok = FALSE
    /\ sent \in PacketSeqs
    /\ noise \in NoiseSamples
    /\ inserted = << >>
    /\ stream = << >>
    /\ gui_pc = "loop"
    /\ gui_running = TRUE
    /\ gui_connected = TRUE
    /\ gui_stream = noise \o Serialize(sent)
    /\ gui_buffer = << >>
    /\ gui_routed = << >>

NextGui ==
    \/ GuiLoop
    \/ GuiReadData
    \/ GuiReadTimeout
    \/ GuiReadFatal
    \/ GuiDemuxShort
    \/ GuiDemuxRaise
    \/ GuiDemuxInvalid
    \/ GuiDemuxIncomplete
    \/ GuiDemuxPacket
    \/ GuiDisconnect

SpecGui == InitGui /\ [][NextGui]_vars

(***************************************************************************)
(* C30: one corrupt byte in front of well-formed packets does not stop     *)
(* the GUI's receive loop: once it has read every byte and is back at its  *)
(* read, it has routed every packet that came behind the corrupt byte.     *)
(***************************************************************************)
C30_GuiResyncs ==
    ( /\ noise = << 170 >>
      /\ gui_stream = << >>
      /\ gui_pc = "read" )
    => gui_routed = sent

(***************************************************************************)
(* C36: once the pump has routed an AuthFail packet, it routes no later    *)
(* packet of the inbound stream: in the list of the calls made to          *)
(* _handle_packet, an AuthFail is the last one.  (The handler clears       *)
(* _running at 258, but the inner loop at 181 tests only the buffer's      *)
(* length, so the packets behind the AuthFail in the buffer follow.)       *)
(***************************************************************************)
C36_NothingRoutedAfterAuthFail ==
    \A i \in 1..Len(routed) : routed[i][1] = AUTH_FAIL => i = Len(routed)

(***************************************************************************)
(* C39: the render poll worker never dereferences a cleared window         *)
(* reference: is_running and update_frame are only invoked while           *)
(* StreamPipeline._sdl_window is not None, so the worker never ends by     *)
(* the AttributeError a call on None raises.                               *)
(***************************************************************************)
C39_RenderNeverDerefsNone == renPc # "crashed"

(***************************************************************************)
(* C34: DroppingQueue.get with several consumers and producers.  Every     *)
(* item is returned by at most one get; what a get returns is the item at  *)
(* the head of the queue at that moment, which it removes (so never an     *)
(* item that was evicted or cleared), and None exactly when the queue is   *)
(* empty at that moment: at once for a get without timeout, and after the  *)
(* wait for a get with a timeout (an item put during the wait is           *)
(* returned).  A get without timeout never has to wait.                    *)
(***************************************************************************)
NoItemTwice ==
    \A i, j \in 1..Len(dq_got) :
        (i # j /\ dq_got[i].value # 0) => dq_got[i].value # dq_got[j].value

GetTakesHead ==
    Len(dq_got') = Len(dq_got) + 1 =>
        LET r == dq_got'[Len(dq_got')]
        IN  IF dq_items = << >>
            THEN r.value = 0 /\ dq_items' = << >>
            ELSE r.value = Head(dq_items) /\ dq_items' = Tail(dq_items)

C34_GetConcurrent ==
    /\ [](NoItemTwice /\ (Len(dq_got) < MaxGets => ENABLED DqGetNowait))
    /\ [][GetTakesHead]_vars

\* Capacity 1: a get returned 1, a get on the empty queue returned None,
\* the put of 3 evicted 2 while a consumer waited, and the consumer woke
\* with 3
C34_Witness ==
    /\ dq_maxsize = 1
    /\ dq_flags = << FALSE, FALSE, TRUE >>
    /\ Len(dq_got) = 3
    /\ dq_got[1].value = 1
    /\ dq_got[2].value = 0
    /\ dq_got[3].value = 3
    /\ dq_waiting = {}

(***************************************************************************)
(* C35: AoaHost.is_connected is false before the first connect_to_device   *)
(* call.  It becomes true only in the last step of a connect_to_device     *)
(* call that claimed the interface and found a bulk IN and a bulk OUT      *)
(* endpoint, and that call returns True.  A call that returns False (no    *)
(* device, AOA version < 1, string or start failure, re-enumeration        *)
(* timeout, claim failure, missing endpoint) leaves it false.  It becomes  *)
(* false only by disconnect(), which also drops the device handle, and     *)
(* disconnect() can be called whenever no connect_to_device is running.    *)
(***************************************************************************)
InterfaceClaimed(log) ==
    \E i \in 1..Len(log) : log[i].op = "claim" /\ log[i].ok

ConnectedMeansConnectSucceeded ==
    /\ (aoa_result = "none" /\ usb_log = << >>) => ~aoa_connected
    /\ aoa_connected =>
          /\ aoa_pc = "idle"
          /\ aoa_result = "True"
          /\ aoa_device = "accessory"
          /\ InterfaceClaimed(usb_log)
          /\ aoa_endpoint_in /\ aoa_endpoint_out
    /\ aoa_device = "None" => ~aoa_connected
    /\ aoa_pc = "idle" => ENABLED Disconnect

ConnectedChanges ==
    /\ (~aoa_connected /\ aoa_connected') =>
          /\ aoa_pc = "endpoints" /\ aoa_pc' = "idle"
          /\ aoa_result' = "True"
    /\ (aoa_connected /\ ~aoa_connected') =>
          /\ aoa_pc = "idle" /\ aoa_pc' = "idle"
          /\ aoa_device' = "None"
    /\ (aoa_pc # "idle" /\ aoa_pc' = "idle") =>
          /\ aoa_result' \in {"True", "False"}
          /\ aoa_connected' = (aoa_result' = "True")
    /\ (aoa_device # "None" /\ aoa_device' = "None") => ~aoa_connected'

C35_IsConnected ==
    /\ []ConnectedMeansConnectSucceeded
    /\ [][ConnectedChanges]_vars

\* A call found only the bulk IN endpoint and returned False: the interface
\* is claimed, the device handle is kept, the host is not connected
C35_Witness ==
    /\ aoa_pc = "idle"
    /\ aoa_result = "False"
    /\ InterfaceClaimed(usb_log)
    /\ aoa_endpoint_in /\ ~aoa_endpoint_out
    /\ aoa_device = "accessory"
    /\ ~aoa_connected

(***************************************************************************)
(* C33: the demuxer's inner loop terminates on every buffer content.       *)
(* Each iteration either routes a whole packet and takes its 5 + length    *)
(* bytes off the buffer, or takes exactly one byte off on an invalid       *)
(* header and routes nothing, or leaves the loop with the buffer as it     *)
(* is; and when the loop is left on an incomplete packet, the bytes still  *)
(* awaited are at most MAX_PAYLOAD_SIZE.                                   *)
(***************************************************************************)
AwaitedBytes(buf) ==
    HEADER_TOTAL_SIZE
        + parse_header(TakeFirst(buf, HEADER_TOTAL_SIZE)).length
        - Len(buf)

IterationRoutes ==
    /\ usbPc' = "demux"
    /\ Len(routed') = Len(routed) + 1
    /\ Len(buffer') <= Len(buffer) - HEADER_TOTAL_SIZE

IterationSkipsOneByte ==
    /\ usbPc' = "demux"
    /\ routed' = routed
    /\ buffer' = Tail(buffer)

IterationExits ==
    /\ usbPc' = "loop"
    /\ routed' = routed
    /\ buffer' = buffer

C33_InnerLoopTerminates ==
    /\ [][ (usbPc = "demux" /\ << usbPc, buffer >>' # << usbPc, buffer >>)
           => (IterationRoutes \/ IterationSkipsOneByte \/ IterationExits)
        ]_vars
    /\ []((InnerLoopLeft /\ PendingIncomplete(buffer))
             => AwaitedBytes(buffer) <= MAX_PAYLOAD_SIZE)

(***************************************************************************)
(* StreamBridge (stream_bridge.py) with its video MPVBridge                *)
(* (mpv_bridge.py).  start() and the USB_Bridge thread are followed;       *)
(* _handle_packet is one step of the thread.  The MPV process is the       *)
(* environment: it can go away at any time, and the bridge notices at its  *)
(* next write.                                                             *)
(***************************************************************************)
besideBridge == << hdrData, hdrResult, dq_maxsize, dq_items, dq_waiting,
                  dq_puts, dq_fresh, dq_flags, dq_got, fqVars, authVars,
                  aoaVars, guiVars, initVars, restartVars, envVars,
                  pipeVars >>

\* MPVBridge.write (mpv_bridge.py 137-157): the bridge after the call; a
\* write to a process that is gone raises BrokenPipeError, which clears
\* MPVBridge._running
MpvWrite(m, data) ==
    IF m.state = "running"
    THEN [state |-> "running", stdin |-> Append(m.stdin, data)]
    ELSE [state |-> "stopped", stdin |-> m.stdin]

\* _send_config_to_mpv (250-260): the MPV bridge and _config_sent after it
send_config_to_mpv(m, sps, pps, config_sent) ==
    IF config_sent \/ sps = << >> \/ pps = << >>
    THEN [mpv |-> m, config_sent |-> config_sent]
    ELSE [mpv |-> MpvWrite(MpvWrite(m, sps), pps), config_sent |-> TRUE]

\* _handle_video (188-199)
bridge_handle_video(m, sps, pps, config_sent, payload) ==
    LET c == send_config_to_mpv(m, sps, pps, config_sent)
    IN  [mpv |-> MpvWrite(c.mpv, EnsureStartCode(payload)),
         config_sent |-> c.config_sent]

\* 231-232, 237-238: only the four-byte start code is looked for
bridge_start_code(config_data) ==
    IF startswith(config_data, StartCode4)
    THEN config_data
    ELSE StartCode4 \o config_data

\* 226-240: config_data as the handler holds it at line 247
bridge_config_data(payload) ==
    IF payload[1] \in {VIDEO_SPS, VIDEO_PPS}
    THEN bridge_start_code(Tail(payload))
    ELSE Tail(payload)

\* What the bulk-OUT transfer of an AoaHost.write of n bytes can do
WriteOutcomes(n) == { Written(n), Written(0), USBError }

\* _handle_packet (166-186) with _handle_video, _handle_audio,
\* _handle_config and _handle_auth; outcome is what the bulk-OUT transfer
\* does if the handler writes
BridgeHandlePacket(packet_type, payload, outcome) ==
    LET is_config == packet_type = CONFIG /\ Len(payload) >= 1
        sps == IF is_config /\ payload[1] = VIDEO_SPS
               THEN bridge_config_data(payload) ELSE br_sps
        pps == IF is_config /\ payload[1] = VIDEO_PPS
               THEN bridge_config_data(payload) ELSE br_pps
        to_mpv ==
            IF packet_type = VIDEO
            THEN bridge_handle_video(br_mpv, br_sps, br_pps, br_config_sent,
                                     payload)
            ELSE IF is_config /\ payload[1] = VIDEO_PPS /\ sps # << >>
                 THEN send_config_to_mpv(br_mpv, sps, pps, br_config_sent)
                 ELSE [mpv |-> br_mpv, config_sent |-> br_config_sent]
        signature == sign_challenge(key_loaded, payload)
        response == create_header(AUTH_RESPONSE, Len(signature.value))
                        \o signature.value
    IN  /\ br_routed' = Append(br_routed, << packet_type, payload >>)
        /\ br_sps' = sps
        /\ br_pps' = pps
        /\ br_mpv' = to_mpv.mpv
        /\ br_config_sent' = to_mpv.config_sent
        /\ br_config_calls' =
              IF is_config /\ br_callback
              THEN Append(br_config_calls,
                          << payload[1], bridge_config_data(payload) >>)
              ELSE br_config_calls
        /\ br_writes' =
              IF packet_type = AUTH_CHALLENGE /\ signature.kind = "bytes"
              THEN Append(br_writes,
                          [data |-> response,
                           result |-> aoa_write(connected, TRUE, response,
                                                outcome)])
              ELSE br_writes
        /\ br_status' =
              IF packet_type = AUTH_CHALLENGE
              THEN Append(br_status,
                          IF signature.kind = "bytes"
                          THEN "Auth response sent"
                          ELSE "Auth failed")
              ELSE IF packet_type = AUTH_SUCCESS
                   THEN Append(br_status, "Authentication successful")
                   ELSE IF packet_type = AUTH_FAIL
                        THEN Append(br_status, "Authentication failed")
                        ELSE br_status
        /\ br_running' = IF packet_type = AUTH_FAIL THEN FALSE
                                                    ELSE br_running

\* start (83-104): MPVBridge.start succeeds or not
BrStart ==
    /\ br_pc = "none"
    /\ ~br_running
    /\ br_status = << >>
    /\ \E ok \in BOOLEAN :
          IF ok
          THEN /\ br_mpv' = [state |-> "running", stdin |-> << >>]
               /\ br_running' = TRUE
               /\ br_pc' = "loop"
               /\ br_status' = << "Stream bridge started" >>
          ELSE /\ br_status' = << "Failed to start MPV for video" >>
               /\ UNCHANGED << br_mpv, br_running, br_pc >>
    /\ UNCHANGED << br_callback, br_stream, br_buffer, br_sps, br_pps,
                    br_config_sent, br_config_calls, br_writes, br_routed,
                    besideBridge >>

\* The MPV process ends (its window is closed, or it crashes)
MpvBreaks ==
    /\ br_mpv.state = "running"
    /\ br_mpv' = [br_mpv EXCEPT !.state = "broken"]
    /\ UNCHANGED << br_pc, br_running, br_callback, br_stream, br_buffer,
                    br_sps, br_pps, br_config_sent, br_config_calls,
                    br_status, br_writes, br_routed, besideBridge >>

\* 133: the loop condition
BrLoop ==
    /\ br_pc = "loop"
    /\ br_pc' = IF br_running /\ connected THEN "read" ELSE "exit"
    /\ UNCHANGED << br_running, br_callback, br_stream, br_buffer, br_sps,
                    br_pps, br_config_sent, br_mpv, br_config_calls,
                    br_status, br_writes, br_routed, besideBridge >>

\* 135, 142: AoaHost.read returned n bytes; buffer.extend(data)
BrReadData ==
    /\ br_pc = "read"
    /\ connected
    /\ \E n \in 1..Len(br_stream) :
          /\ br_buffer' = br_buffer \o TakeFirst(br_stream, n)
          /\ br_stream' = DropFirst(br_stream, n)
    /\ br_pc' = "demux"
    /\ UNCHANGED << br_running, br_callback, br_sps, br_pps, br_config_sent,
                    br_mpv, br_config_calls, br_status, br_writes,
                    br_routed, besideBridge >>

\* 139-140: the read timed out; continue
BrReadTimeout ==
    /\ br_pc = "read"
    /\ connected
    /\ br_pc' = "loop"
    /\ UNCHANGED << br_running, br_callback, br_stream, br_buffer, br_sps,
                    br_pps, br_config_sent, br_mpv, br_config_calls,
                    br_status, br_writes, br_routed, besideBridge >>

\* 136-138: the read returned None; report and break
BrReadFatal ==
    /\ br_pc = "read"
    /\ br_pc' = "exit"
    /\ br_status' = Append(br_status, "USB connection lost")
    /\ UNCHANGED << br_running, br_callback, br_stream, br_buffer, br_sps,
                    br_pps, br_config_sent, br_mpv, br_config_calls,
                    br_writes, br_routed, besideBridge >>

\* 145: fewer than 5 bytes; back to the outer loop
BrDemuxShort ==
    /\ br_pc = "demux"
    /\ Len(br_buffer) < HEADER_TOTAL_SIZE
    /\ br_pc' = "loop"
    /\ UNCHANGED << br_running, br_callback, br_stream, br_buffer, br_sps,
                    br_pps, br_config_sent, br_mpv, br_config_calls,
                    br_status, br_writes, br_routed, besideBridge >>

\* 146: parse_header raised; nothing in the thread catches it
BrDemuxRaise ==
    /\ br_pc = "demux"
    /\ Len(br_buffer) >= HEADER_TOTAL_SIZE
    /\ parse_header(TakeFirst(br_buffer, HEADER_TOTAL_SIZE)).kind = "raise"
    /\ br_pc' = "crashed"
    /\ UNCHANGED << br_running, br_callback, br_stream, br_buffer, br_sps,
                    br_pps, br_config_sent, br_mpv, br_config_calls,
                    br_status, br_writes, br_routed, besideBridge >>

\* 147-150: invalid header, skip one byte
BrDemuxResync ==
    /\ br_pc = "demux"
    /\ Len(br_buffer) >= HEADER_TOTAL_SIZE
    /\ parse_header(TakeFirst(br_buffer, HEADER_TOTAL_SIZE)) = NoneValue
    /\ br_buffer' = skip_one_byte(br_buffer)
    /\ UNCHANGED << br_pc, br_running, br_callback, br_stream, br_sps,
                    br_pps, br_config_sent, br_mpv, br_config_calls,
                    br_status, br_writes, br_routed, besideBridge >>

\* 152-155: incomplete packet, wait for more data
BrDemuxIncomplete ==
    /\ br_pc = "demux"
    /\ Len(br_buffer) >= HEADER_TOTAL_SIZE
    /\ LET header == parse_header(TakeFirst(br_buffer, HEADER_TOTAL_SIZE))
       IN  /\ header.kind = "PacketHeader"
           /\ Len(br_buffer) < HEADER_TOTAL_SIZE + header.length
    /\ br_pc' = "loop"
    /\ UNCHANGED << br_running, br_callback, br_stream, br_buffer, br_sps,
                    br_pps, br_config_sent, br_mpv, br_config_calls,
                    br_status, br_writes, br_routed, besideBridge >>

\* 157-162: strip the header, consume the packet, route it
BrDemuxPacket ==
    /\ br_pc = "demux"
    /\ Len(br_buffer) >= HEADER_TOTAL_SIZE
    /\ LET header == parse_header(TakeFirst(br_buffer, HEADER_TOTAL_SIZE))
       IN  /\ header.kind = "PacketHeader"
           /\ LET total_size == HEADER_TOTAL_SIZE + header.length
                  payload == extract_payload(br_buffer, total_size)
              IN  /\ Len(br_buffer) >= total_size
                  /\ br_buffer' = consume_packet(br_buffer, total_size)
                  /\ \E outcome \in
                        IF header.type = AUTH_CHALLENGE
                        THEN WriteOutcomes(HEADER_TOTAL_SIZE
                                               + SIGNATURE_SIZE)
                        ELSE { NotIssued } :
                        BridgeHandlePacket(header.type, payload, outcome)
    /\ UNCHANGED << br_pc, br_callback, br_stream, besideBridge >>

\* 164: self._running = False
BrExit ==
    /\ br_pc = "exit"
    /\ br_running' = FALSE
    /\ br_pc' = "done"
    /\ UNCHANGED << br_callback, br_stream, br_buffer, br_sps, br_pps,
                    br_config_sent, br_mpv, br_config_calls, br_status,
                    br_writes, br_routed, besideBridge >>

(***************************************************************************)
(* Specification SpecBridge: a StreamBridge on short streams of the        *)
(* packets below, cut into read chunks in every way                        *)
(***************************************************************************)
MaxBridgePackets == 2

BridgePackets ==
    { << VIDEO, << 7 >> >>,
      << VIDEO, << 0, 0, 1, 7 >> >>,
      << CONFIG, << VIDEO_SPS, 103 >> >>,
      << CONFIG, << VIDEO_PPS, 104 >> >>,
      << CONFIG, << VIDEO_SPS, 0, 0, 0, 1, 103 >> >>,
      << CONFIG, << AUDIO_AAC, 18 >> >>,
      << CONFIG, << 9 >> >>,
      << CONFIG, << >> >>,
      << AUDIO, << 1 >> >>,
      << AUTH_CHALLENGE, ZeroChallenge >>,
      << AUTH_SUCCESS, << >> >>,
      << AUTH_FAIL, << >> >> }

\* Longer streams: the decoder configuration in both orders, in front of
\* and behind video
BridgeScenarios ==
    { << << CONFIG, << VIDEO_SPS, 103 >> >>,
         << CONFIG, << VIDEO_PPS, 104 >> >>,
         << VIDEO, << 7 >> >>,
         << VIDEO, << 8 >> >> >>,
      << << CONFIG, << VIDEO_PPS, 104 >> >>,
         << CONFIG, << VIDEO_SPS, 103 >> >>,
         << VIDEO, << 7 >> >> >>,
      << << VIDEO, << 7 >> >>,
         << CONFIG, << VIDEO_SPS, 103 >> >>,
         << CONFIG, << VIDEO_PPS, 104 >> >>,
         << VIDEO, << 8 >> >> >> }

BridgeSeqs ==
    UNION { [1..n -> BridgePackets] : n \in 0..MaxBridgePackets }
        \cup BridgeScenarios

BridgeNoise == { << >>, << 170 >>, << 170, 0, 0, 0, 5 >> }

InitBridge ==
    /\ CodecIdle
    /\ PipelineConstructed
    /\ AuthIdle /\ AoaIdle /\ GuiIdle /\ DecoderInitIdle /\ RestartIdle
    /\ connected = TRUE
    /\ key_loaded \in BOOLEAN
    /\ audio_callback = FALSE
    /\ codec_ok = FALSE
    /\ sent \in BridgeSeqs
    /\ noise \in BridgeNoise
    /\ inserted = << >>
    /\ stream = << >>
    /\ br_pc = "none"
    /\ br_running = FALSE
    /\ br_callback \in BOOLEAN
    /\ br_stream = noise \o Serialize(sent)
    /\ br_buffer = << >>
    /\ br_sps = << >>
    /\ br_pps = << >>
    /\ br_config_sent = FALSE
    /\ br_mpv = [state |-> "stopped", stdin |-> << >>]
    /\ br_config_calls = << >>
    /\ br_status = << >>
    /\ br_writes = << >>
    /\ br_routed = << >>

NextBridge ==
    \/ BrStart
    \/ MpvBreaks
    \/ BrLoop
    \/ BrReadData
    \/ BrReadTimeout
    \/ BrReadFatal
    \/ BrDemuxShort
    \/ BrDemuxRaise
    \/ BrDemuxResync
    \/ BrDemuxIncomplete
    \/ BrDemuxPacket
    \/ BrExit

SpecBridge == InitBridge /\ [][NextBridge]_vars

(***************************************************************************)
(* C31: in StreamBridge, SPS and PPS precede video payloads on the         *)
(* player's input.  A step that writes a Video payload to the MPV bridge   *)
(* leaves _config_sent true with the stored SPS and PPS on the player's    *)
(* input in front of the payload; _config_sent is never reset, and the     *)
(* SPS/PPS pair goes to the player only in the step that sets it, so at    *)
(* most once.                                                              *)
(***************************************************************************)
VideoWritten ==
    /\ Len(br_routed') = Len(br_routed) + 1
    /\ br_routed'[Len(br_routed')][1] = VIDEO
    /\ Len(br_mpv'.stdin) > Len(br_mpv.stdin)

ConfigWritten ==
    \E i \in 1..(Len(br_mpv'.stdin) - 2) :
        /\ br_mpv'.stdin[i] = br_sps'
        /\ br_mpv'.stdin[i + 1] = br_pps'

C31_ConfigBeforeVideoOnMpv ==
    [][ /\ VideoWritten => (br_config_sent' /\ ConfigWritten)
        /\ br_config_sent => br_config_sent'
        /\ Len(br_mpv'.stdin) >= Len(br_mpv.stdin) + 2
              => (~br_config_sent /\ br_config_sent') ]_vars

(***************************************************************************)
(* C32: routing a Config packet with payload s || rest calls the config    *)
(* callback, if one is set, once with exactly (s, rest), whatever the      *)
(* subtype; a Config packet with an empty payload makes no call.  So the   *)
(* calls of the callback are the (s, rest) of the Config packets routed    *)
(* with a payload, in order.                                               *)
(***************************************************************************)
RECURSIVE ConfigCallsOwed(_)
ConfigCallsOwed(pkts) ==
    IF pkts = << >>
    THEN << >>
    ELSE LET pkt == Head(pkts)
         IN  (IF pkt[1] = CONFIG /\ Len(pkt[2]) >= 1
              THEN << << pkt[2][1], Tail(pkt[2]) >> >>
              ELSE << >>) \o ConfigCallsOwed(Tail(pkts))

C32_ConfigRoutedUnmodified ==
    br_config_calls =
        IF br_callback THEN ConfigCallsOwed(br_routed) ELSE << >>

(***************************************************************************)
(* C37: the status message "Auth response sent" is reported only when the  *)
(* AuthResponse was accepted by the transport: there are no more such      *)
(* messages than AoaHost.write calls that returned true.                   *)
(***************************************************************************)
SentReports ==
    Cardinality({ i \in 1..Len(br_status) :
                    br_status[i] = "Auth response sent" })

AcceptedResponses ==
    Cardinality({ i \in 1..Len(br_writes) : br_writes[i].result })

C37_SentOnlyWhenAccepted == SentReports <= AcceptedResponses

(***************************************************************************)
(* PyAVDecoder (pyav_decoder.py) as the pipeline's two threads drive it:   *)
(* the USB pump calls set_sps and set_pps (pipeline.py 234-237) and puts   *)
(* Video payloads into the video queue (208), the decoder thread takes     *)
(* them out and calls decode (269-272).  No method of the three takes      *)
(* PyAVDecoder._lock, so the threads interleave statement by statement.    *)
(* The codec opens without error.                                          *)
(***************************************************************************)
besideInit == << hdrData, hdrResult, dq_maxsize, dq_items, dq_waiting,
                dq_puts, dq_fresh, dq_flags, dq_got, fqVars, authVars,
                aoaVars, guiVars, bridgeVars, restartVars, envVars,
                pipeVars >>

\* Where a thread goes on when _initialize_decoder has returned
after_initialize(t, result) ==
    IF t = "pump"
    THEN "next"
    ELSE IF result THEN "decode_use" ELSE "get"

\* pipeline.py 205-210, 234-237; pyav_decoder.py 116, 132: the pump routes
\* its next packet; set_sps and set_pps begin with the assignment
DiPumpNext ==
    /\ di_pc["pump"] = "next"
    /\ di_todo # << >>
    /\ di_todo' = Tail(di_todo)
    /\ di_sps' = (di_sps \/ Head(di_todo) = "sps")
    /\ di_pps' = (di_pps \/ Head(di_todo) = "pps")
    /\ di_queue' = di_queue + (IF Head(di_todo) = "video" THEN 1 ELSE 0)
    /\ di_pc' = [di_pc EXCEPT !["pump"] =
                    IF Head(di_todo) = "video" THEN "next" ELSE "set_check"]
    /\ UNCHANGED << di_running, di_codec_ctx, di_created, besideInit >>

\* 120-121, 136-137: if the other parameter set is there and the decoder
\* is not running, initialize
DiPumpSetCheck ==
    /\ di_pc["pump"] = "set_check"
    /\ di_pc' = [di_pc EXCEPT !["pump"] =
                    IF di_sps /\ di_pps /\ ~di_running
                    THEN "init_enter" ELSE "next"]
    /\ UNCHANGED << di_todo, di_queue, di_sps, di_pps, di_running,
                    di_codec_ctx, di_created, besideInit >>

\* 141-146: the tests at the head of _initialize_decoder
DiInitEnter(t) ==
    /\ di_pc[t] = "init_enter"
    /\ di_pc' = [di_pc EXCEPT ![t] =
                    IF di_running
                    THEN after_initialize(t, TRUE)
                    ELSE IF ~di_sps \/ ~di_pps
                         THEN after_initialize(t, FALSE)
                         ELSE "init_create"]
    /\ UNCHANGED << di_todo, di_queue, di_sps, di_pps, di_running,
                    di_codec_ctx, di_created, besideInit >>

\* 150-157: self._codec_ctx = av.CodecContext.create(codec)
DiInitCreate(t) ==
    /\ di_pc[t] = "init_create"
    /\ di_codec_ctx' = t
    /\ di_created' = Append(di_created, t)
    /\ di_pc' = [di_pc EXCEPT ![t] = "init_open"]
    /\ UNCHANGED << di_todo, di_queue, di_sps, di_pps, di_running,
                    besideInit >>

\* 168-187: open the codec, feed it SPS + PPS, self._running = True
DiInitOpen(t) ==
    /\ di_pc[t] = "init_open"
    /\ di_running' = TRUE
    /\ di_pc' = [di_pc EXCEPT ![t] = after_initialize(t, TRUE)]
    /\ UNCHANGED << di_todo, di_queue, di_sps, di_pps, di_codec_ctx,
                    di_created, besideInit >>

\* pipeline.py 269: the decoder thread takes a payload from the queue
DiGet ==
    /\ di_pc["dec"] = "get"
    /\ di_queue > 0
    /\ di_queue' = di_queue - 1
    /\ di_pc' = [di_pc EXCEPT !["dec"] = "decode_check"]
    /\ UNCHANGED << di_todo, di_sps, di_pps, di_running, di_codec_ctx,
                    di_created, besideInit >>

\* 232-238: decode initializes the decoder itself when it is not running
\* and both parameter sets are there
DiDecodeCheck ==
    /\ di_pc["dec"] = "decode_check"
    /\ di_pc' = [di_pc EXCEPT !["dec"] =
                    IF ~di_running \/ di_codec_ctx = "None"
                    THEN IF di_sps /\ di_pps THEN "init_enter" ELSE "get"
                    ELSE "decode_use"]
    /\ UNCHANGED << di_todo, di_queue, di_sps, di_pps, di_running,
                    di_codec_ctx, di_created, besideInit >>

\* 244-259: self._codec_ctx.decode(packet); back to the queue
DiDecodeUse ==
    /\ di_pc["dec"] = "decode_use"
    /\ di_pc' = [di_pc EXCEPT !["dec"] = "get"]
    /\ UNCHANGED << di_todo, di_queue, di_sps, di_pps, di_running,
                    di_codec_ctx, di_created, besideInit >>

(***************************************************************************)
(* Specification SpecDecoderInit: the two threads on every stream of at    *)
(* most MaxInitPackets SPS, PPS and Video packets                          *)
(***************************************************************************)
MaxInitPackets == 4

InitDecoderInit ==
    /\ CodecIdle
    /\ PipelineAbsent
    /\ AuthIdle /\ AoaIdle /\ GuiIdle /\ BridgeIdle /\ RestartIdle
    /\ di_pc = [t \in {"pump", "dec"} |->
                   IF t = "pump" THEN "next" ELSE "get"]
    /\ di_todo \in UNION { [1..n -> {"sps", "pps", "video"}] :
                             n \in 0..MaxInitPackets }
    /\ di_queue = 0
    /\ di_sps = FALSE
    /\ di_pps = FALSE
    /\ di_running = FALSE
    /\ di_codec_ctx = "None"
    /\ di_created = << >>

NextDecoderInit ==
    \/ DiPumpNext
    \/ DiPumpSetCheck
    \/ \E t \in {"pump", "dec"} : DiInitEnter(t)
    \/ \E t \in {"pump", "dec"} : DiInitCreate(t)
    \/ \E t \in {"pump", "dec"} : DiInitOpen(t)
    \/ DiGet
    \/ DiDecodeCheck
    \/ DiDecodeUse

SpecDecoderInit == InitDecoderInit /\ [][NextDecoderInit]_vars

(***************************************************************************)
(* C38: the PyAV decoder is initialized at most once per stream and never  *)
(* by two threads at the same time: the pump (in set_sps / set_pps) and    *)
(* the decoder thread (in decode) are never inside _initialize_decoder     *)
(* together, and at most one codec context is ever created, so none is     *)
(* replaced.                                                               *)
(***************************************************************************)
InInitialize(t) == di_pc[t] \in {"init_enter", "init_create", "init_open"}

C38_DecoderInitializedOnce ==
    /\ ~(InInitialize("pump") /\ InInitialize("dec"))
    /\ Len(di_created) <= 1

(***************************************************************************)
(* StreamPipeline.set_audio_callback (pipeline.py 87-89), called by the    *)
(* owner of the pipeline at any time, before or after start()              *)
(***************************************************************************)
SetAudioCallback ==
    /\ ~audio_callback
    /\ audio_callback' = TRUE
    /\ UNCHANGED << codecVars, connected, key_loaded, codec_ok, sent, noise,
                    inserted, pipeVars >>

(***************************************************************************)
(* Specification SpecAudio: the USB pump alone on every stream of the      *)
(* samples, with the audio callback installed at some moment               *)
(***************************************************************************)
InitAudio ==
    /\ BridgeIdle /\ DecoderInitIdle
    /\ AuthIdle /\ AoaIdle /\ GuiIdle /\ RestartIdle
    /\ CodecIdle
    /\ PipelineConstructed
    /\ connected = TRUE
    /\ key_loaded = TRUE
    /\ audio_callback = FALSE
    /\ codec_ok = TRUE
    /\ sent \in PacketSeqs
    /\ noise \in NoiseSamples
    /\ inserted = << >>
    /\ stream = noise \o Serialize(sent)

NextAudio ==
    \/ StartOk
    \/ UsbPump
    \/ SetAudioCallback

SpecAudio == InitAudio /\ [][NextAudio]_vars

(***************************************************************************)
(* C40: whenever an audio callback is installed, each Audio packet the     *)
(* pump routes is delivered to the callback in that same step, before the  *)
(* next packet is routed: the step hands the packet's own payload to the   *)
(* callback and leaves the audio ingress queue empty.  The queue never     *)
(* holds more than 50 payloads.                                            *)
(***************************************************************************)
AudioDeliveredAtOnce ==
    ( /\ Len(routed') = Len(routed) + 1
      /\ routed'[Len(routed')][1] = AUDIO
      /\ audio_callback )
    => ( /\ audio_out' = Append(audio_out, routed'[Len(routed')][2])
         /\ audio_queue' = << >> )

C40_AudioDeliveredInOrder ==
    /\ [][AudioDeliveredAtOnce]_vars
    /\ [](Len(audio_queue) <= AUDIO_QUEUE_MAXSIZE)

====
